---- MODULE Spec2Model ----
(***************************************************************************)
(* The PostToolUse hook dispatcher (hooks/post_tool_use.py): routing of a  *)
(* tool name to the hooks of POST_TOOL_USE_CONFIG, the concurrent batch    *)
(* (asyncio.gather), the sequential loop, the per-hook timeout and the     *)
(* aggregation of the outcomes into the exit code; and the Stop dispatcher *)
(* (hooks/stop.py), which runs every hook of STOP_HOOK_CONFIG in one batch *)
(* and forwards their stdout.                                              *)
(*                                                                         *)
(* Spec is a run of post_tool_use.py with the shipped registry, FairSpec   *)
(* the same with fairness, SpecRegistries a run with registries that have  *)
(* hooks the filter removes, SpecStop a run of stop.py.  SpecTodoCheck is  *)
(* a run of hooks/stop/check_todos_completed.py, SpecStopTodos a run of    *)
(* stop.py with that script as its hook, SpecKnowledge and SpecRules a     *)
(* session of events on hooks/post-tool-use/inject_knowledge.py and        *)
(* inject_rules.py.                                                        *)
(*                                                                         *)
(* Text is a sequence of symbols: a tool name or a matcher is a sequence   *)
(* of characters, a command a sequence of words, an output stream a        *)
(* sequence of the pieces written to it.  A Python value read from argv or *)
(* from the JSON payload is a record [t, v]: t its type ("str", "num",     *)
(* "none"), v its text.                                                    *)
(***************************************************************************)
EXTENDS Integers, Sequences, FiniteSets, TLC

(* At most this many hooks of one run end otherwise than by a clean exit   *)
(* (0, "", "") for a reason of their own (a non-zero exit, output, a       *)
(* timeout, a failed fork).                                                *)
MaxFaulty == 2

(***************************************************************************)
(* Text helpers                                                            *)
(***************************************************************************)
NL == "\n"

Str(s) == [t |-> "str", v |-> s]

Num(s) == [t |-> "num", v |-> s]

None == [t |-> "none", v |-> <<>>]

(* "is not None" in the place of truthiness *)
Truthy_isNotNone(x) == x.t # "none"

(* Python truthiness of a str / int / None value *)
Truthy(x) ==
    CASE x.t = "none" -> FALSE
      [] x.t = "str" -> x.v # <<>>
      [] x.t = "num" -> x.v # <<"0">>
      [] OTHER -> TRUE

RECURSIVE SplitOn(_, _)
(* s.split(sep): the pieces of s between the occurrences of sep *)
SplitOn(s, sep) ==
    IF \E i \in DOMAIN s : s[i] = sep
    THEN LET i == CHOOSE k \in DOMAIN s : s[k] = sep /\ \A j \in 1..(k - 1) : s[j] # sep
         IN  <<SubSeq(s, 1, i - 1)>> \o SplitOn(SubSeq(s, i + 1, Len(s)), sep)
    ELSE <<s>>

(* The regular expression's "$" at position pos of s (1-based, pos is the  *)
(* next unread character): the end of s, or just before a newline that is  *)
(* the last character of s.                                                *)
AtDollar(s, pos) ==
    \/ pos = Len(s) + 1
    \/ pos = Len(s) /\ s[pos] = NL

(* s starts with the literal lit *)
StartsWith(s, lit) ==
    /\ Len(lit) <= Len(s)
    /\ \A i \in DOMAIN lit : s[i] = lit[i]

(***************************************************************************)
(* The registry                                                            *)
(***************************************************************************)
HookCommand(command, asyncable) ==
    [type |-> "command", command |-> command, asyncable |-> asyncable]

HookMatcher(matcher, hooks) == [matcher |-> matcher, hooks |-> hooks]

HOOK_DIR == "~/.claude/hooks/post-tool-use/"

Script(name) == <<HOOK_DIR, name>>

UvRun(name) == <<"uv run", HOOK_DIR, name>>

TODOLIST_CHECK_CMD ==
    <<"input=$(cat);", "file_path=$(... jq ...);", "if ai-todolist.md; then",
      HOOK_DIR, "remind-ai-todolist.sh", "; fi">>

WRITE_MATCHER ==
    <<"W", "r", "i", "t", "e", "|", "E", "d", "i", "t", "|",
      "M", "u", "l", "t", "i", "E", "d", "i", "t">>

READ_MATCHER == <<"R", "e", "a", "d">>

TASK_MATCHER == <<"T", "a", "s", "k">>

POST_TOOL_USE_CONFIG ==
    << HookMatcher(WRITE_MATCHER,
         << HookCommand(Script("system-reminder.sh"), FALSE),
            HookCommand(UvRun("inject_conftest.py"), FALSE),
            HookCommand(UvRun("inject_knowledge.py"), FALSE),
            HookCommand(UvRun("inject_language_guide.py"), FALSE),
            HookCommand(UvRun("typescript_typecheck.py"), TRUE),
            HookCommand(UvRun("python_auto_fix_init_reexport.py"), FALSE),
            HookCommand(UvRun("python_lint_and_format.py"), FALSE),
            HookCommand(UvRun("python_type_checker.py"), FALSE),
            HookCommand(UvRun("python_check_any_return.py"), TRUE),
            HookCommand(UvRun("check_typeddict_total_false.py"), TRUE),
            HookCommand(UvRun("python_check_comments.py"), TRUE),
            HookCommand(UvRun("python_check_nested_imports.py"), TRUE),
            HookCommand(UvRun("python_check_match_case.py"), TRUE),
            HookCommand(UvRun("check_corrupted_encoding.py"), TRUE),
            HookCommand(TODOLIST_CHECK_CMD, FALSE) >>),
       HookMatcher(READ_MATCHER,
         << HookCommand(UvRun("inject_knowledge.py"), FALSE),
            HookCommand(UvRun("inject_language_guide.py"), FALSE),
            HookCommand(UvRun("inject_conftest.py"), FALSE) >>),
       HookMatcher(TASK_MATCHER,
         << HookCommand(Script("remind-execution.sh"), FALSE) >>) >>

(***************************************************************************)
(* Router                                                                  *)
(***************************************************************************)
(* re.match("^(" + matcher + ")$", tool_name) for a matcher that is an     *)
(* alternation of literals: some alternative is a prefix of tool_name and  *)
(* "$" matches right after it.                                             *)
match_tool(tool_name, matcher) ==
    LET alts == SplitOn(matcher, "|")
    IN  \E k \in DOMAIN alts :
            /\ StartsWith(tool_name, alts[k])
            /\ AtDollar(tool_name, Len(alts[k]) + 1)

(* a test for the command being the dispatcher's file name and no more *)
is_self_hook_equal(command) == command = <<"post_tool_use.py">>

(* lines 157-158 *)
is_self_hook(command) == \E i \in DOMAIN command : command[i] = "post_tool_use.py"

RECURSIVE MatchingHooks_unconditional(_, _)
(* the loop of lines 215-217 without the test of line 216 *)
MatchingHooks_unconditional(tool_name, config) ==
    IF config = <<>> THEN <<>>
    ELSE Head(config).hooks \o MatchingHooks_unconditional(tool_name, Tail(config))

RECURSIVE MatchingHooks(_, _)
(* lines 214-217: extend matching_hooks with the hooks of every matching   *)
(* rule, rule by rule                                                      *)
MatchingHooks(tool_name, config) ==
    IF config = <<>> THEN <<>>
    ELSE (IF match_tool(tool_name, Head(config).matcher) THEN Head(config).hooks ELSE <<>>)
         \o MatchingHooks(tool_name, Tail(config))

IsValidHook(hook) ==
    hook.type = "command" /\ hook.command # <<>> /\ ~is_self_hook(hook.command)

IsAsyncable(hook) == hook.asyncable

IsNotAsyncable(hook) == ~hook.asyncable

(* line 230 *)
AsyncPartition(valid) == SelectSeq(valid, IsAsyncable)

(* a sequential partition built back to front *)
SyncPartition_reversed(valid) ==
    LET syncs == SelectSeq(valid, IsNotAsyncable)
    IN  [j \in DOMAIN syncs |-> syncs[Len(syncs) + 1 - j]]

(* line 231 *)
SyncPartition(valid) == SelectSeq(valid, IsNotAsyncable)

(***************************************************************************)
(* Inputs of one run                                                       *)
(***************************************************************************)
N_Write == <<"W", "r", "i", "t", "e">>

N_Edit == <<"E", "d", "i", "t">>

N_MultiEdit == <<"M", "u", "l", "t", "i", "E", "d", "i", "t">>

N_Read == <<"R", "e", "a", "d">>

N_Task == <<"T", "a", "s", "k">>

N_Bash == <<"B", "a", "s", "h">>

DASH_TOOL == <<"-", "-", "t", "o", "o", "l">>

PROG == <<"post_tool_use.py">>

Absent == [t |-> "absent", v |-> <<>>]

(* stdin: nothing, white space, text that is not JSON, JSON that is not an *)
(* object, or a JSON object with (or without) the members tool_name, cwd   *)
(* and session_id                                                          *)
(* raw is the content itself, piece by piece; kind, tool_name, cwd and     *)
(* session_id say what json.loads makes of its text                        *)
EmptyStdin ==
    [raw |-> <<>>, kind |-> "empty", tool_name |-> Absent, cwd |-> Absent,
     session_id |-> Absent]

BlankStdin ==
    [raw |-> <<NL>>, kind |-> "blank", tool_name |-> Absent, cwd |-> Absent,
     session_id |-> Absent]

NotJson ==
    [raw |-> <<"not json">>, kind |-> "notjson", tool_name |-> Absent, cwd |-> Absent,
     session_id |-> Absent]

JsonArray ==
    [raw |-> <<"[]">>, kind |-> "nonobject", tool_name |-> Absent, cwd |-> Absent,
     session_id |-> Absent]

(* the JSON text of one member of the payload object *)
JsonMember(key, value) ==
    CASE value.t = "absent" -> <<>>
      [] value.t = "none" -> <<key, ": null, ">>
      [] value.t = "num" -> <<key, ": ">> \o value.v \o <<", ">>
      [] OTHER -> <<key, ": \"">> \o value.v \o <<"\", ">>

Payload(tool, cwd) ==
    [raw |-> <<"{">> \o JsonMember("tool_name", tool) \o JsonMember("cwd", cwd)
                     \o <<"session_id: 1}">>,
     kind |-> "object", tool_name |-> tool, cwd |-> cwd, session_id |-> Num(<<"1">>)]

(* the payload of a Stop event *)
StopPayload(session, cwd) ==
    [raw |-> <<"{">> \o JsonMember("session_id", session) \o JsonMember("cwd", cwd)
                     \o <<"hook_event_name: \"Stop\"}">>,
     kind |-> "object", tool_name |-> Absent, cwd |-> cwd, session_id |-> session]

(* a byte that is not UTF-8, and the lone surrogate it is decoded to under *)
(* the error handler surrogateescape                                       *)
BadByte == "<0xff>"

Surrogate == "<U+DCFF>"

(* a payload one of whose string values holds a byte that is not UTF-8 *)
WithBadByte(payload) ==
    [payload EXCEPT !.raw = <<"{", "note: \"", BadByte, "\", ">> \o Tail(@)]

(* the error handlers sys.stdin can have: "strict", or "surrogateescape"   *)
(* under the C / POSIX locale                                              *)
StdinErrors == {"strict", "surrogateescape"}

(* line 197, sys.stdin.read(): whether the decoder accepts raw, and the    *)
(* text it returns                                                         *)
Decodable(raw, errors) ==
    errors = "surrogateescape" \/ \A i \in DOMAIN raw : raw[i] # BadByte

Decode(raw) == [i \in DOMAIN raw |-> IF raw[i] = BadByte THEN Surrogate ELSE raw[i]]

(* line 176, stdin_data.encode(): UTF-8, strict; a lone surrogate raises   *)
(* UnicodeEncodeError, any other text gives back the bytes it was decoded  *)
(* from                                                                    *)
Encodable(text) == \A i \in DOMAIN text : text[i] # Surrogate

Encode(text) == [i \in DOMAIN text |-> text[i]]

(* os.environ.get("POST_TOOL_USE_RUNNING"): unset, empty, or the marker *)
Environs == {None, Str(<<>>), Str(<<"1">>)}

PROJ == Str(<<"/proj">>)

(* the directories that exist; os.getcwd() is one of them *)
ExistingDirs == {<<"/cwd">>, <<"/proj">>}

getcwd == Str(<<"/cwd">>)

Argvs ==
    { <<PROG>>, <<PROG, DASH_TOOL>>, <<PROG, DASH_TOOL, N_Task>>,
      <<PROG, DASH_TOOL, N_Bash>>, <<PROG, DASH_TOOL, <<>>>>, <<PROG, N_Task>> }

Stdins ==
    { EmptyStdin, NotJson, JsonArray,
      Payload(Absent, Absent), Payload(None, PROJ), Payload(Str(<<>>), PROJ),
      Payload(Num(<<"7">>), PROJ),
      Payload(Str(N_Write), PROJ),
      Payload(Str(N_Edit), Str(<<"/gone">>)),
      Payload(Str(N_MultiEdit), None),
      Payload(Str(N_Read), Absent),
      Payload(Str(N_Read \o <<NL>>), PROJ),
      Payload(Str(N_Task), PROJ),
      Payload(Str(N_Bash), PROJ),
      Payload(Str(<<"R", "e", "a">>), PROJ),
      Payload(Str(N_Write \o <<"|">> \o N_Edit), PROJ),
      WithBadByte(Payload(Str(N_Task), PROJ)) }

(* the payloads whose run executes the fifteen hooks of the first rule in  *)
(* a usable directory                                                      *)
SlowStdins == {Payload(Str(N_Write), PROJ)}

(***************************************************************************)
(* Hook outcomes                                                           *)
(***************************************************************************)
Outcome(rc, out, err) == [returncode |-> rc, stdout |-> out, stderr |-> err]

NoResult == [returncode |-> -1, stdout |-> <<>>, stderr |-> <<"<unset>">>]

Clean == Outcome(0, <<>>, <<>>)

(* what the subprocess of a hook writes to its stderr when it has a say *)
HookStderr(hook) == <<"warn:">> \o hook.command \o <<NL>>

HookStdout(hook) == <<"out:">> \o hook.command \o <<NL>>

(* the ways a hook's subprocess can exit: (returncode, stdout, stderr) *)
ExitOutcomes(hook) ==
    { Clean,
      Outcome(0, HookStdout(hook), HookStderr(hook)),
      Outcome(2, <<>>, <<>>),
      Outcome(2, HookStdout(hook), HookStderr(hook)) }

IsBlockingExit(o) == o.returncode = 2 /\ o.stderr # <<>>

(* lines 178-182: process.returncode or 0, and the two decoded streams *)
Returned(o) == Outcome(IF o.returncode = 0 THEN 0 ELSE o.returncode, o.stdout, o.stderr)

(* a timeout reported with the blocking exit code, stdout kept *)
TimedOut_blocking == Outcome(2, <<"partial output">>, <<"Hook execution timed out">>)

(* line 184 *)
TimedOut == Outcome(1, <<>>, <<"Hook execution timed out">>)

(* line 186 *)
LaunchFailed == Outcome(1, <<>>, <<"Hook execution failed: ">>)

(* create_subprocess_shell(cwd=cwd) starts a shell only in a directory     *)
(* that is a str and exists                                                *)
CwdUsable(cwd) == cwd.t = "str" /\ cwd.v \in ExistingDirs

(* the test without "and stderr" *)
NeedsToKnow_anyStderr(r) == r.returncode = 2

(* lines 243 and 250: the outcome makes the verdict blocking *)
NeedsToKnow(r) == r.returncode = 2 /\ r.stderr # <<>>

VARIABLES
    environ_running,     \* os.environ.get("POST_TOOL_USE_RUNNING")
    argv,                \* sys.argv
    stdin_data,          \* the content of stdin
    stdin_errors,        \* sys.stdin.errors
    config,              \* the registry the run routes with
    pc,                  \* where _main is
    tool_name, current_cwd,
    matching_hooks, valid_hooks, async_hooks, sync_hooks,
    claude_needs_to_know,
    results,             \* the gathered batch's results, NoResult while awaited
    hook_idx,            \* position of the sequential loop in sync_hooks
    result,              \* the tuple last unpacked into returncode, _stdout, stderr
    async_life, sync_life, \* per hook: its task and its subprocess
    stdout_out, stderr_out, \* what the dispatcher has written
    exit_code,           \* the process's exit status, -1 while running
    raised,              \* the exception that left a handler (or that main caught), "" if none
    faulty,              \* hooks that ended otherwise than by a clean exit
    launch_log,          \* history: the hooks in the order execute_hook_async started
    blocking_exits,      \* history: subprocesses that exited 2 with stderr text
    synthetic,           \* history: outcomes made up for a timeout or a failed launch
    handed,              \* history: what the created subprocesses were given
    blockers,            \* history: the hooks that exited 2 with stderr text, in
                         \* the order their subprocesses ended
    stop_config,         \* stop.py: the registry the Stop dispatcher runs
    stop_life,           \* stop.py: per hook, its task and its subprocess
    should_block, all_stdout, all_stderr, \* stop.py: the locals of lines 76-78
    log_writable,        \* whether ~/.claude/hook_debug.log can be opened for append
    todo_file,           \* ~/.claude/todos/<session>-agent-<session>.json of the session
    knowledge_files,     \* the knowledge files there are, by path
    transcript,          \* the session's transcript, entry after entry
    event,               \* the PostToolUse event a hook script was last run on
    inserted             \* history: the rule todos add_todo_item inserted, [rule, id]

vars ==
    <<environ_running, argv, stdin_data, stdin_errors, config, pc, tool_name,
      current_cwd, matching_hooks, valid_hooks, async_hooks, sync_hooks,
      claude_needs_to_know, results, hook_idx, result, async_life, sync_life,
      stdout_out, stderr_out, exit_code, raised, faulty, launch_log, blocking_exits,
      synthetic, handed, blockers, stop_config, stop_life, should_block, all_stdout,
      all_stderr, log_writable, todo_file, knowledge_files, transcript, event, inserted>>

inputs == <<environ_running, argv, stdin_data, stdin_errors, config>>

history == <<blocking_exits, synthetic, handed, blockers>>

stop_vars == <<stop_config, stop_life, should_block, all_stdout, all_stderr>>

locals == <<tool_name, current_cwd, matching_hooks, valid_hooks, async_hooks, sync_hooks>>

(* what the hook scripts keep between events, in files of ~/.claude *)
hook_state == <<log_writable, todo_file, knowledge_files, transcript, event, inserted>>

(* no hook script has run on an event yet *)
NoEvent == [kind |-> "none", tool |-> <<>>, file |-> <<>>, cwd |-> <<>>]

(* a todo file that does not exist *)
NoTodoFile == [exists |-> FALSE, kind |-> "none", todos |-> <<>>]

(* no hook script has left anything *)
NoHookState ==
    /\ log_writable = TRUE
    /\ todo_file = NoTodoFile
    /\ knowledge_files = {}
    /\ transcript = <<>>
    /\ event = NoEvent
    /\ inserted = {}

InitWith(argvs, stdins, configs) ==
    /\ environ_running \in Environs
    /\ argv \in argvs
    /\ stdin_data \in stdins
    /\ stdin_errors \in {e \in StdinErrors : e = "strict" \/ ~Decodable(stdin_data.raw, "strict")}
    /\ config \in configs
    /\ pc = "start"
    /\ tool_name = None
    /\ current_cwd = getcwd
    /\ matching_hooks = <<>>
    /\ valid_hooks = <<>>
    /\ async_hooks = <<>>
    /\ sync_hooks = <<>>
    /\ claude_needs_to_know = FALSE
    /\ results = <<>>
    /\ hook_idx = 0
    /\ result = NoResult
    /\ async_life = <<>>
    /\ sync_life = <<>>
    /\ stdout_out = <<>>
    /\ stderr_out = <<>>
    /\ exit_code = -1
    /\ raised = ""
    /\ faulty = 0
    /\ launch_log = <<>>
    /\ blocking_exits = 0
    /\ synthetic = 0
    /\ handed = {}
    /\ blockers = <<>>
    /\ stop_life = <<>>
    /\ should_block = FALSE
    /\ all_stdout = <<>>
    /\ all_stderr = <<>>

Init ==
    /\ InitWith(Argvs, Stdins, {POST_TOOL_USE_CONFIG})
    /\ stop_config = <<>>
    /\ NoHookState
    /\ stdin_data \in SlowStdins => argv = <<PROG>> /\ environ_running = None

(* _main returns code (sys.exit(main())) after writing err to stderr *)
Return(code, err) ==
    /\ pc' = "done"
    /\ exit_code' = code
    /\ stderr_out' = stderr_out \o err
    /\ raised' = raised

(* an exception leaves _main and asyncio.run: traceback, exit status 1 *)
Raise(exc) ==
    /\ pc' = "done"
    /\ exit_code' = 1
    /\ stderr_out' = stderr_out \o <<"Traceback (most recent call last):", exc>>
    /\ raised' = exc

(* a dispatcher that does not look at its arguments *)
ArgvTool_ignored == None

(* lines 193-195 *)
ArgvTool ==
    IF Len(argv) > 1 /\ argv[2] = DASH_TOOL /\ Len(argv) > 2 THEN Str(argv[3]) ELSE None

(* a lookup that never finds the member *)
Get_defaultOnly(member, default) == default

(* dict.get(key, default) on a member that may be absent *)
Get(member, default) == IF member.t = "absent" THEN default ELSE member

(* lines 190-212: the reentrancy guard, the tool name, the read of stdin   *)
(* and the cwd                                                             *)
ParseInput ==
    /\ pc = "start"
    /\ UNCHANGED <<inputs, hook_state, stop_vars, matching_hooks, valid_hooks, async_hooks, sync_hooks,
                   claude_needs_to_know, results, hook_idx, result, async_life,
                   sync_life, stdout_out, faulty, launch_log, history>>
    /\ IF Truthy(environ_running)
       THEN Return(0, <<>>) /\ UNCHANGED <<tool_name, current_cwd>>
       ELSE IF ~Decodable(stdin_data.raw, stdin_errors)
       THEN Raise("UnicodeDecodeError") /\ tool_name' = ArgvTool /\ UNCHANGED current_cwd
       ELSE IF stdin_data.kind = "nonobject"
       THEN Raise("AttributeError") /\ tool_name' = ArgvTool /\ UNCHANGED current_cwd
       ELSE LET parsed == stdin_data.kind = "object"
                cwd == IF parsed THEN Get(stdin_data.cwd, getcwd) ELSE getcwd
                tool == IF parsed /\ ~Truthy(ArgvTool)
                        THEN Get(stdin_data.tool_name, None) ELSE ArgvTool
            IN  /\ tool_name' = tool
                /\ current_cwd' = cwd
                /\ IF ~Truthy(tool)
                   THEN Return(1, <<"Error: tool_name not provided", NL>>)
                   ELSE /\ pc' = "routing"
                        /\ UNCHANGED <<exit_code, stderr_out, raised>>

Life(hooks) == [i \in DOMAIN hooks |-> "pending"]

Unset(hooks) == [i \in DOMAIN hooks |-> NoResult]

(* lines 214-231: the matching hooks, the valid ones, the two partitions *)
Route ==
    /\ pc = "routing"
    /\ UNCHANGED <<inputs, hook_state, stop_vars, tool_name, current_cwd, claude_needs_to_know,
                   result, stdout_out, faulty, launch_log, history>>
    /\ IF tool_name.t # "str"
       THEN /\ Raise("TypeError")
            /\ UNCHANGED <<matching_hooks, valid_hooks, async_hooks, sync_hooks,
                           results, async_life, sync_life, hook_idx>>
       ELSE LET matching == MatchingHooks(tool_name.v, config)
                valid == SelectSeq(matching, IsValidHook)
                asyncs == AsyncPartition(valid)
                syncs == SyncPartition(valid)
            IN  /\ matching_hooks' = matching
                /\ IF matching = <<>>
                   THEN /\ Return(0, <<"No hooks found for tool: ">> \o tool_name.v \o <<NL>>)
                        /\ UNCHANGED <<valid_hooks, async_hooks, sync_hooks,
                                       results, async_life, sync_life, hook_idx>>
                   ELSE /\ valid_hooks' = valid
                        /\ IF valid = <<>>
                           THEN /\ Return(0, <<>>)
                                /\ UNCHANGED <<async_hooks, sync_hooks,
                                               results, async_life, sync_life, hook_idx>>
                           ELSE /\ async_hooks' = asyncs
                                /\ sync_hooks' = syncs
                                /\ results' = Unset(asyncs)
                                /\ async_life' = Life(asyncs)
                                /\ sync_life' = Life(syncs)
                                /\ pc' = IF asyncs # <<>> THEN "exec_concurrent"
                                         ELSE IF syncs # <<>> THEN "exec_sequential"
                                         ELSE "aggregating"
                                /\ hook_idx' = IF asyncs # <<>> THEN 0 ELSE 1
                                /\ UNCHANGED <<exit_code, stderr_out, raised>>

(***************************************************************************)
(* Hook Executor and Fan-out Scheduler                                     *)
(*                                                                         *)
(* The life of a hook: "pending" (execute_hook_async not started),         *)
(* "running" (subprocess alive, communicate() awaited), "orphan" (wait_for *)
(* gave up at the timeout and the outcome was returned; nothing in lines   *)
(* 183-184 ends the subprocess, which is still alive), "ended" (the        *)
(* outcome was returned and there is no subprocess: it ended, it was never *)
(* created, or it ended of its own after the timeout).                     *)
(***************************************************************************)
Alive(life) == life \in {"running", "orphan"}

Resolved(life) == life \in {"ended", "orphan"}

Budget == MaxFaulty - faulty

(* line 197: the text sys.stdin.read() returned *)
StdinText == Decode(stdin_data.raw)

(* lines 162-176 for one hook: its life right after the attempt to create  *)
(* its subprocess and to encode its stdin; forkFails is the environment's  *)
(* say.  When encode() raises, the subprocess exists and is left behind.   *)
Started(forkFails) ==
    IF ~CwdUsable(current_cwd) \/ forkFails THEN "ended"
    ELSE IF ~Encodable(StdinText) THEN "orphan"
    ELSE "running"

(* a subprocess environment that is the dispatcher's own plus the cwd *)
ChildEnv_inherited(cwd) ==
    [POST_TOOL_USE_RUNNING |-> environ_running, CLAUDE_CODE_CWD |-> cwd]

(* lines 163-165: the environment of a hook's subprocess, of which the     *)
(* marker and the cwd are kept here                                        *)
ChildEnv(cwd) ==
    [POST_TOOL_USE_RUNNING |-> Str(<<"1">>), CLAUDE_CODE_CWD |-> cwd]

(* lines 167-176: what a created subprocess is given: its environment, its *)
(* directory and, by communicate(), the bytes on its stdin; when encode()  *)
(* raised, communicate() is not called and the pipe carries nothing        *)
Child ==
    [stdin |-> IF Encodable(StdinText) THEN Encode(StdinText) ELSE <<>>,
     env |-> ChildEnv(current_cwd),
     cwd |-> current_cwd]

(* lines 235-236: gather() starts execute_hook_async for every asyncable   *)
(* hook, in list order; each creates its subprocess before any is awaited  *)
LaunchConcurrent ==
    /\ pc = "exec_concurrent"
    /\ \A i \in DOMAIN async_life : async_life[i] = "pending"
    /\ \E F \in SUBSET (DOMAIN async_hooks) :
          /\ Cardinality(F) <= Budget
          /\ CwdUsable(current_cwd) \/ F = {}
          /\ async_life' = [i \in DOMAIN async_hooks |-> Started(i \in F)]
          /\ results' = [i \in DOMAIN async_hooks |->
                            IF Started(i \in F) # "running" THEN LaunchFailed ELSE NoResult]
          /\ faulty' = faulty + Cardinality(F)
          /\ synthetic' = synthetic +
                Cardinality({i \in DOMAIN async_hooks : Started(i \in F) # "running"})
          /\ handed' = IF \E i \in DOMAIN async_hooks : Started(i \in F) # "ended"
                       THEN handed \cup {Child} ELSE handed
    /\ launch_log' = launch_log \o [i \in DOMAIN async_hooks |-> async_hooks[i].command]
    /\ UNCHANGED <<inputs, hook_state, stop_vars, locals, pc, claude_needs_to_know, hook_idx, result, sync_life,
                   stdout_out, stderr_out, exit_code, raised, blocking_exits, blockers>>

(* a task of the batch that writes its hook's blocking text as soon as the *)
(* subprocess ends                                                         *)
AsyncExit_printAtOnce(i) ==
    /\ pc = "exec_concurrent"
    /\ async_life[i] = "running"
    /\ \E o \in ExitOutcomes(async_hooks[i]) :
          /\ o = Clean \/ Budget > 0
          /\ results' = [results EXCEPT ![i] = Returned(o)]
          /\ stderr_out' = IF NeedsToKnow(Returned(o)) THEN stderr_out \o o.stderr
                           ELSE stderr_out
          /\ faulty' = IF o = Clean THEN faulty ELSE faulty + 1
          /\ blocking_exits' = IF IsBlockingExit(o) THEN blocking_exits + 1 ELSE blocking_exits
          /\ blockers' = IF IsBlockingExit(o) THEN Append(blockers, <<"async", i>>)
                         ELSE blockers
    /\ async_life' = [async_life EXCEPT ![i] = "ended"]
    /\ UNCHANGED <<inputs, hook_state, stop_vars, locals, pc, claude_needs_to_know, hook_idx, result, sync_life,
                   stdout_out, exit_code, raised, launch_log, synthetic, handed>>

(* lines 176-182 in a task of the batch: the subprocess of hook i ends     *)
AsyncExit(i) ==
    /\ pc = "exec_concurrent"
    /\ async_life[i] = "running"
    /\ \E o \in ExitOutcomes(async_hooks[i]) :
          /\ o = Clean \/ Budget > 0
          /\ results' = [results EXCEPT ![i] = Returned(o)]
          /\ faulty' = IF o = Clean THEN faulty ELSE faulty + 1
          /\ blocking_exits' = IF IsBlockingExit(o) THEN blocking_exits + 1 ELSE blocking_exits
          /\ blockers' = IF IsBlockingExit(o) THEN Append(blockers, <<"async", i>>)
                         ELSE blockers
    /\ async_life' = [async_life EXCEPT ![i] = "ended"]
    /\ UNCHANGED <<inputs, hook_state, stop_vars, locals, pc, claude_needs_to_know, hook_idx, result, sync_life,
                   stdout_out, stderr_out, exit_code, raised, launch_log, synthetic,
                   handed>>

(* lines 176, 183-184 in a task of the batch: 30 s passed *)
AsyncTimeout(i) ==
    /\ pc = "exec_concurrent"
    /\ async_life[i] = "running"
    /\ Budget > 0
    /\ results' = [results EXCEPT ![i] = TimedOut]
    /\ async_life' = [async_life EXCEPT ![i] = "orphan"]
    /\ faulty' = faulty + 1
    /\ synthetic' = synthetic + 1
    /\ UNCHANGED <<inputs, hook_state, stop_vars, locals, pc, claude_needs_to_know, hook_idx, result, sync_life,
                   stdout_out, stderr_out, exit_code, raised, launch_log, blocking_exits,
                   handed, blockers>>

RECURSIVE AsyncLoop_backwards(_, _)
(* the loop taking the batch from its last hook to its first *)
AsyncLoop_backwards(i, st) ==
    IF i > Len(async_hooks) THEN st
    ELSE LET r == results[Len(async_hooks) + 1 - i]
         IN  AsyncLoop_backwards(i + 1,
               [ know |-> st.know \/ NeedsToKnow(r),
                 err |-> IF NeedsToKnow(r) THEN st.err \o r.stderr ELSE st.err,
                 result |-> r ])

RECURSIVE AsyncLoop_printEvery(_, _)
(* the loop with the print of line 245 outside the test of line 243 *)
AsyncLoop_printEvery(i, st) ==
    IF i > Len(async_hooks) THEN st
    ELSE AsyncLoop_printEvery(i + 1,
           [ know |-> st.know \/ NeedsToKnow(results[i]),
             err |-> st.err \o results[i].stderr,
             result |-> results[i] ])

RECURSIVE AsyncLoop_untilBlocking(_, _)
(* the loop left (break) once an outcome has made the verdict blocking *)
AsyncLoop_untilBlocking(i, st) ==
    IF i > Len(async_hooks) \/ st.know THEN st
    ELSE AsyncLoop_untilBlocking(i + 1,
           [ know |-> st.know \/ NeedsToKnow(results[i]),
             err |-> IF NeedsToKnow(results[i]) THEN st.err \o results[i].stderr ELSE st.err,
             result |-> results[i] ])

RECURSIVE AsyncLoop(_, _)
(* lines 238-245: the loop over zip(async_hooks, results) from position i, *)
(* st the locals it updates                                                *)
AsyncLoop(i, st) ==
    IF i > Len(async_hooks) THEN st
    ELSE AsyncLoop(i + 1,
           [ know |-> st.know \/ NeedsToKnow(results[i]),
             err |-> IF NeedsToKnow(results[i]) THEN st.err \o results[i].stderr ELSE st.err,
             result |-> results[i] ])

(* a loop over sync_hooks that is left at the first blocking outcome *)
AtSyncHook_leaveWhenBlocking(i) ==
    /\ hook_idx' = i
    /\ pc' = IF i > Len(sync_hooks) \/ claude_needs_to_know'
             THEN "aggregating" ELSE "exec_sequential"

(* the loop over sync_hooks is at hook i, or past the last one *)
AtSyncHook(i) ==
    /\ hook_idx' = i
    /\ pc' = IF i > Len(sync_hooks) THEN "aggregating" ELSE "exec_sequential"

(* a wait that returns with the first result of the batch *)
(* a wait for the end of every subprocess, timeout or not *)
BatchResolved_allEnded == \A i \in DOMAIN async_life : async_life[i] = "ended"

(* a wait that returns with the first result of the batch *)
BatchResolved_first == \E i \in DOMAIN async_life : Resolved(async_life[i])

(* line 236: gather() returns once every task of the batch has its result  *)
BatchResolved == \A i \in DOMAIN async_life : Resolved(async_life[i])

(* once line 236 has returned, the loop of lines 238-245.  results is not  *)
(* read again and is dropped.                                              *)
GatherDone ==
    /\ pc = "exec_concurrent"
    /\ BatchResolved
    /\ LET st == AsyncLoop(1, [know |-> claude_needs_to_know, err |-> stderr_out,
                               result |-> result])
       IN  /\ claude_needs_to_know' = st.know
           /\ stderr_out' = st.err
           /\ result' = st.result
    /\ results' = <<>>
    /\ AtSyncHook(1)
    /\ UNCHANGED <<inputs, hook_state, stop_vars, locals, async_life, sync_life, stdout_out, exit_code, raised,
                   faulty, launch_log, history>>

(* the line that names the hook, without the hook's own text *)
SyncBlockText_lineOnly(hook, r) == <<"Hook Executed: ">> \o hook.command \o <<NL>>

(* the hook's stdout forwarded with its stderr *)
SyncBlockText_withStdout(hook, r) ==
    <<"Hook Executed: ">> \o hook.command \o <<NL>> \o r.stdout \o r.stderr

(* lines 252-253: what a blocking outcome r of a sequential hook puts on   *)
(* the dispatcher's stderr                                                 *)
SyncBlockText(hook, r) == <<"Hook Executed: ">> \o hook.command \o <<NL>> \o r.stderr

(* the blocking text put in front of what stderr already holds *)
SyncResult_textInFront(r) ==
    /\ result' = r
    /\ claude_needs_to_know' = (claude_needs_to_know \/ NeedsToKnow(r))
    /\ stderr_out' =
          IF NeedsToKnow(r)
          THEN SyncBlockText(sync_hooks[hook_idx], r) \o stderr_out
          ELSE stderr_out
    /\ AtSyncHook(hook_idx + 1)

(* lines 250-253 for the outcome r of sync_hooks[hook_idx] *)
SyncResult(r) ==
    /\ result' = r
    /\ claude_needs_to_know' = (claude_needs_to_know \/ NeedsToKnow(r))
    /\ stderr_out' =
          IF NeedsToKnow(r)
          THEN stderr_out \o SyncBlockText(sync_hooks[hook_idx], r)
          ELSE stderr_out
    /\ AtSyncHook(hook_idx + 1)

(* line 248, lines 162-174: execute_hook_async for the loop's hook; when   *)
(* no subprocess can be created its outcome is there at once               *)
SyncLaunch ==
    /\ pc = "exec_sequential"
    /\ sync_life[hook_idx] = "pending"
    /\ \E forkFails \in BOOLEAN :
          /\ forkFails => CwdUsable(current_cwd) /\ Budget > 0
          /\ sync_life' = [sync_life EXCEPT ![hook_idx] = Started(forkFails)]
          /\ faulty' = IF forkFails THEN faulty + 1 ELSE faulty
          /\ synthetic' = IF Started(forkFails) # "running" THEN synthetic + 1 ELSE synthetic
          /\ handed' = IF Started(forkFails) # "ended" THEN handed \cup {Child} ELSE handed
          /\ IF Started(forkFails) # "running"
             THEN SyncResult(LaunchFailed)
             ELSE UNCHANGED <<result, claude_needs_to_know, stderr_out, hook_idx, pc>>
    /\ launch_log' = Append(launch_log, sync_hooks[hook_idx].command)
    /\ UNCHANGED <<inputs, hook_state, stop_vars, locals, results, async_life, stdout_out, exit_code, raised,
                   blocking_exits, blockers>>

(* lines 176-182, 250-253: the subprocess of the loop's hook ends *)
SyncExit ==
    /\ pc = "exec_sequential"
    /\ sync_life[hook_idx] = "running"
    /\ \E o \in ExitOutcomes(sync_hooks[hook_idx]) :
          /\ o = Clean \/ Budget > 0
          /\ SyncResult(Returned(o))
          /\ faulty' = IF o = Clean THEN faulty ELSE faulty + 1
          /\ blocking_exits' = IF IsBlockingExit(o) THEN blocking_exits + 1 ELSE blocking_exits
          /\ blockers' = IF IsBlockingExit(o) THEN Append(blockers, <<"sync", hook_idx>>)
                         ELSE blockers
    /\ sync_life' = [sync_life EXCEPT ![hook_idx] = "ended"]
    /\ UNCHANGED <<inputs, hook_state, stop_vars, locals, results, async_life, stdout_out, exit_code, raised,
                   launch_log, synthetic, handed>>

(* lines 176, 183-184, 250-253: 30 s passed for the loop's hook *)
SyncTimeout ==
    /\ pc = "exec_sequential"
    /\ sync_life[hook_idx] = "running"
    /\ Budget > 0
    /\ SyncResult(TimedOut)
    /\ sync_life' = [sync_life EXCEPT ![hook_idx] = "orphan"]
    /\ faulty' = faulty + 1
    /\ synthetic' = synthetic + 1
    /\ UNCHANGED <<inputs, hook_state, stop_vars, locals, results, async_life, stdout_out, exit_code, raised,
                   launch_log, blocking_exits, handed, blockers>>

(* the subprocess a timeout left behind ends of its own *)
AsyncOrphanExit(i) ==
    /\ async_life[i] = "orphan"
    /\ async_life' = [async_life EXCEPT ![i] = "ended"]
    /\ UNCHANGED <<inputs, hook_state, stop_vars, locals, pc, claude_needs_to_know, results, hook_idx, result,
                   sync_life, stdout_out, stderr_out, exit_code, raised, faulty,
                   launch_log, history>>

SyncOrphanExit(i) ==
    /\ sync_life[i] = "orphan"
    /\ sync_life' = [sync_life EXCEPT ![i] = "ended"]
    /\ UNCHANGED <<inputs, hook_state, stop_vars, locals, pc, claude_needs_to_know, results, hook_idx, result,
                   async_life, stdout_out, stderr_out, exit_code, raised, faulty,
                   launch_log, history>>

(***************************************************************************)
(* Verdict Aggregator                                                      *)
(***************************************************************************)
(* lines 255-259 *)
Verdict(know) == IF know THEN 2 ELSE 0

Aggregate ==
    /\ pc = "aggregating"
    /\ Return(Verdict(claude_needs_to_know), <<>>)
    /\ UNCHANGED <<inputs, hook_state, stop_vars, locals, claude_needs_to_know, results, hook_idx, result,
                   async_life, sync_life, stdout_out, faulty, launch_log, history>>

Next ==
    \/ ParseInput
    \/ Route
    \/ LaunchConcurrent
    \/ \E i \in DOMAIN async_life : AsyncExit(i)
    \/ \E i \in DOMAIN async_life : AsyncTimeout(i)
    \/ GatherDone
    \/ SyncLaunch
    \/ SyncExit
    \/ SyncTimeout
    \/ \E i \in DOMAIN async_life : AsyncOrphanExit(i)
    \/ \E i \in DOMAIN sync_life : SyncOrphanExit(i)
    \/ Aggregate

Spec == Init /\ [][Next]_vars

(* the steps of the dispatcher and of the subprocesses it awaits: all of   *)
(* Next but the end of a subprocess nobody awaits any more                 *)
Progress ==
    \/ ParseInput
    \/ Route
    \/ LaunchConcurrent
    \/ \E i \in DOMAIN async_life : AsyncExit(i) \/ AsyncTimeout(i)
    \/ GatherDone
    \/ SyncLaunch
    \/ SyncExit
    \/ SyncTimeout
    \/ Aggregate

(* the event loop runs what is ready, and every awaited subprocess ends or *)
(* reaches the timeout of wait_for                                         *)
FairSpec == Init /\ [][Next]_vars /\ WF_vars(Progress)

(***************************************************************************)
(* The filter of lines 223-228 on registries other than the shipped one:   *)
(* rules whose hooks refer to the dispatcher itself, are of another type   *)
(* or have no command.                                                     *)
(***************************************************************************)
SELF_COMMAND == <<"uv run", "~/.claude/hooks/", "post_tool_use.py", "--tool Write">>

SELF_IN_PIPELINE == <<"tee /tmp/event.json |", "python3", "post_tool_use.py">>

PromptHook == [type |-> "prompt", command |-> <<"summarise the change">>, asyncable |-> FALSE]

RegistryWithSelfHooks ==
    << HookMatcher(WRITE_MATCHER,
         << HookCommand(UvRun("inject_knowledge.py"), FALSE),
            HookCommand(SELF_COMMAND, TRUE),
            HookCommand(UvRun("python_check_comments.py"), TRUE),
            PromptHook,
            HookCommand(SELF_IN_PIPELINE, FALSE),
            HookCommand(<<>>, FALSE) >>),
       HookMatcher(READ_MATCHER,
         << HookCommand(SELF_COMMAND, FALSE), HookCommand(SELF_IN_PIPELINE, TRUE) >>),
       HookMatcher(TASK_MATCHER,
         << HookCommand(Script("remind-execution.sh"), FALSE) >>) >>

RegistrySelfFirst ==
    << HookMatcher(READ_MATCHER,
         << HookCommand(SELF_IN_PIPELINE, TRUE),
            HookCommand(UvRun("python_check_match_case.py"), TRUE),
            HookCommand(UvRun("python_check_comments.py"), TRUE),
            HookCommand(UvRun("inject_conftest.py"), FALSE),
            HookCommand(<<"post_tool_use.py">>, FALSE) >>) >>

Registries == {RegistryWithSelfHooks, RegistrySelfFirst}

InitRegistries ==
    /\ InitWith({<<PROG>>},
                {Payload(Str(N_Write), PROJ), Payload(Str(N_Read), Absent),
                 Payload(Str(N_Task), PROJ)},
                Registries)
    /\ environ_running = None
    /\ stop_config = <<>>
    /\ NoHookState

SpecRegistries == InitRegistries /\ [][Next]_vars

(***************************************************************************)
(* The Stop dispatcher (hooks/stop.py): every hook of STOP_HOOK_CONFIG in  *)
(* one gather(), then the loop over the results, the two joined texts and  *)
(* the verdict.  pc is "stop_start", "stop_gather", "stop_write_stdout",   *)
(* "stop_write_stderr", "stop_return", "done".                             *)
(***************************************************************************)
StopHookCommand(command) == [type |-> "command", command |-> command, asyncable |-> TRUE]

STOP_PROG == <<"stop.py">>

STOP_HOOK_DIR == "~/.claude/hooks/stop/"

STOP_HOOK_CONFIG == <<StopHookCommand(<<"uv run", STOP_HOOK_DIR, "check_todos_completed.py">>)>>

(* registries of no hook and of three hooks, next to the shipped one *)
STOP_CONFIG_OF_THREE ==
    << StopHookCommand(<<"uv run", STOP_HOOK_DIR, "check_todos_completed.py">>),
       StopHookCommand(<<"uv run", STOP_HOOK_DIR, "summarize_session.py">>),
       StopHookCommand(<<STOP_HOOK_DIR, "notify.sh">>) >>

StopConfigs == {STOP_HOOK_CONFIG, STOP_CONFIG_OF_THREE, <<>>}

(* stdin of a Stop event: a payload without tool_name, or something else *)
StopStdins ==
    { EmptyStdin, NotJson, JsonArray,
      Payload(Absent, PROJ), Payload(Absent, Absent), Payload(Absent, Str(<<"/gone">>)),
      WithBadByte(Payload(Absent, PROJ)) }

InitStop ==
    /\ InitWith({<<STOP_PROG>>}, StopStdins, {<<>>})
    /\ NoHookState
    /\ environ_running = None
    /\ stop_config \in StopConfigs

(* stop.py line 54 *)
StopTimedOut == Outcome(1, <<>>, <<"Hook execution timed out">>)

(* stop.py line 56 *)
StopLaunchFailed == Outcome(1, <<>>, <<"Hook execution failed: ">>)

(* stop.py lines 37-46 for one hook: its life right after the attempt to   *)
(* create its subprocess and to encode its stdin                           *)
StopStarted(forkFails) ==
    IF ~CwdUsable(current_cwd) \/ forkFails THEN "ended"
    ELSE IF ~Encodable(StdinText) THEN "orphan"
    ELSE "running"

(* stop.py lines 60-71: the empty registry, the read of stdin, the cwd *)
StopParseInput ==
    /\ pc = "start"
    /\ UNCHANGED <<inputs, hook_state, tool_name, matching_hooks, valid_hooks, async_hooks, sync_hooks,
                   claude_needs_to_know, results, hook_idx, result, async_life, sync_life,
                   stdout_out, faulty, launch_log, history, should_block, all_stdout,
                   all_stderr>>
    /\ IF stop_config = <<>>
       THEN Return(0, <<>>) /\ UNCHANGED <<current_cwd, stop_life, stop_config>>
       ELSE IF ~Decodable(stdin_data.raw, stdin_errors)
       THEN Raise("UnicodeDecodeError") /\ UNCHANGED <<current_cwd, stop_life, stop_config>>
       ELSE IF stdin_data.kind = "nonobject"
       THEN Raise("AttributeError") /\ UNCHANGED <<current_cwd, stop_life, stop_config>>
       ELSE /\ current_cwd' = IF stdin_data.kind = "object"
                              THEN Get(stdin_data.cwd, getcwd) ELSE getcwd
            /\ stop_life' = Life(stop_config)
            /\ pc' = "stop_gather"
            /\ UNCHANGED <<exit_code, stderr_out, raised, stop_config>>
(* stop.py lines 73-74: gather() starts execute_hook_async for every hook  *)
(* of the registry; each creates its subprocess before any is awaited      *)
StopLaunch ==
    /\ pc = "stop_gather"
    /\ \A i \in DOMAIN stop_life : stop_life[i] = "pending"
    /\ \E F \in SUBSET (DOMAIN stop_config) :
          /\ Cardinality(F) <= Budget
          /\ CwdUsable(current_cwd) \/ F = {}
          /\ stop_life' = [i \in DOMAIN stop_config |-> StopStarted(i \in F)]
          /\ results' = [i \in DOMAIN stop_config |->
                IF StopStarted(i \in F) # "running" THEN StopLaunchFailed ELSE NoResult]
          /\ faulty' = faulty + Cardinality(F)
    /\ UNCHANGED <<inputs, hook_state, locals, pc, claude_needs_to_know, hook_idx, result, async_life,
                   sync_life, stdout_out, stderr_out, exit_code, raised, launch_log,
                   history, stop_config, should_block, all_stdout, all_stderr>>

(* stop.py lines 46-52: the subprocess of hook i ends *)
StopHookExit(i) ==
    /\ pc = "stop_gather"
    /\ stop_life[i] = "running"
    /\ \E o \in ExitOutcomes(stop_config[i]) :
          /\ o = Clean \/ Budget > 0
          /\ results' = [results EXCEPT ![i] = Returned(o)]
          /\ faulty' = IF o = Clean THEN faulty ELSE faulty + 1
    /\ stop_life' = [stop_life EXCEPT ![i] = "ended"]
    /\ UNCHANGED <<inputs, hook_state, locals, pc, claude_needs_to_know, hook_idx, result, async_life,
                   sync_life, stdout_out, stderr_out, exit_code, raised, launch_log,
                   history, stop_config, should_block, all_stdout, all_stderr>>

(* stop.py lines 46, 53-54: 30 s passed for hook i; nothing ends its       *)
(* subprocess                                                              *)
StopHookTimeout(i) ==
    /\ pc = "stop_gather"
    /\ stop_life[i] = "running"
    /\ Budget > 0
    /\ results' = [results EXCEPT ![i] = StopTimedOut]
    /\ faulty' = faulty + 1
    /\ stop_life' = [stop_life EXCEPT ![i] = "orphan"]
    /\ UNCHANGED <<inputs, hook_state, locals, pc, claude_needs_to_know, hook_idx, result, async_life,
                   sync_life, stdout_out, stderr_out, exit_code, raised, launch_log,
                   history, stop_config, should_block, all_stdout, all_stderr>>

(* stop.py line 90 *)
StopBlocks(r) == r.returncode = 2 /\ r.stderr # <<>>

RECURSIVE StopLoop_stdoutOfBlockers(_, _)
(* the loop with the test of line 87 inside the branch of line 90 *)
StopLoop_stdoutOfBlockers(i, st) ==
    IF i > Len(stop_config) THEN st
    ELSE StopLoop_stdoutOfBlockers(i + 1,
           [ block |-> st.block \/ StopBlocks(results[i]),
             out |-> IF StopBlocks(results[i]) /\ results[i].stdout # <<>>
                     THEN Append(st.out, results[i].stdout) ELSE st.out,
             err |-> IF StopBlocks(results[i])
                     THEN Append(st.err, results[i].stderr) ELSE st.err ])

RECURSIVE StopLoop(_, _)
(* stop.py lines 80-92: the loop over zip(STOP_HOOK_CONFIG, results) from  *)
(* position i, st the locals it updates.  Every result is a tuple:         *)
(* execute_hook_async catches Exception and no task is cancelled.          *)
StopLoop(i, st) ==
    IF i > Len(stop_config) THEN st
    ELSE StopLoop(i + 1,
           [ block |-> st.block \/ StopBlocks(results[i]),
             out |-> IF results[i].stdout # <<>>
                     THEN Append(st.out, results[i].stdout) ELSE st.out,
             err |-> IF StopBlocks(results[i])
                     THEN Append(st.err, results[i].stderr) ELSE st.err ])

RECURSIVE Join(_)
(* "".join(texts) *)
Join(texts) == IF texts = <<>> THEN <<>> ELSE Head(texts) \o Join(Tail(texts))

(* stop.py lines 74-92: gather() has returned; the loop over the results *)
StopCollect ==
    /\ pc = "stop_gather"
    /\ \A i \in DOMAIN stop_life : Resolved(stop_life[i])
    /\ LET st == StopLoop(1, [block |-> FALSE, out |-> <<>>, err |-> <<>>])
       IN  /\ should_block' = st.block
           /\ all_stdout' = st.out
           /\ all_stderr' = st.err
    /\ pc' = "stop_write_stdout"
    /\ UNCHANGED <<inputs, hook_state, locals, claude_needs_to_know, results, hook_idx, result,
                   async_life, sync_life, stdout_out, stderr_out, exit_code, raised,
                   faulty, launch_log, history, stop_config, stop_life>>

(* stop.py lines 94-95 *)
StopWriteStdout ==
    /\ pc = "stop_write_stdout"
    /\ stdout_out' = stdout_out \o Join(all_stdout)
    /\ pc' = "stop_write_stderr"
    /\ UNCHANGED <<inputs, hook_state, locals, claude_needs_to_know, results, hook_idx, result,
                   async_life, sync_life, stderr_out, exit_code, raised, faulty,
                   launch_log, history, stop_vars>>

(* stop.py lines 97-98 *)
StopWriteStderr ==
    /\ pc = "stop_write_stderr"
    /\ stderr_out' = stderr_out \o Join(all_stderr)
    /\ pc' = "stop_return"
    /\ UNCHANGED <<inputs, hook_state, locals, claude_needs_to_know, results, hook_idx, result,
                   async_life, sync_life, stdout_out, exit_code, raised, faulty,
                   launch_log, history, stop_vars>>

(* stop.py lines 100-108 *)
StopReturn ==
    /\ pc = "stop_return"
    /\ Return(IF should_block THEN 2 ELSE 0, <<>>)
    /\ UNCHANGED <<inputs, hook_state, locals, claude_needs_to_know, results, hook_idx, result,
                   async_life, sync_life, stdout_out, faulty, launch_log, history,
                   stop_vars>>

(* the subprocess a timeout or a failed encode() left behind ends *)
StopOrphanExit(i) ==
    /\ stop_life[i] = "orphan"
    /\ stop_life' = [stop_life EXCEPT ![i] = "ended"]
    /\ UNCHANGED <<inputs, hook_state, locals, pc, claude_needs_to_know, results, hook_idx, result,
                   async_life, sync_life, stdout_out, stderr_out, exit_code, raised,
                   faulty, launch_log, history, stop_config, should_block, all_stdout,
                   all_stderr>>

NextStop ==
    \/ StopParseInput
    \/ StopLaunch
    \/ \E i \in DOMAIN stop_life : StopHookExit(i)
    \/ \E i \in DOMAIN stop_life : StopHookTimeout(i)
    \/ StopCollect
    \/ StopWriteStdout
    \/ StopWriteStderr
    \/ StopReturn
    \/ \E i \in DOMAIN stop_life : StopOrphanExit(i)

SpecStop == InitStop /\ [][NextStop]_vars

(***************************************************************************)
(* Properties                                                              *)
(***************************************************************************)
Done == pc = "done"

HooksExecuted == launch_log # <<>>

(* C1: in a run of _main that executed at least one hook, the exit code is *)
(* 2 if and only if some hook's subprocess exited with code 2 and wrote    *)
(* stderr text; otherwise it is 0.  An exit 2 with empty stderr and any    *)
(* other exit code never block.                                            *)
C1_ExitCodeIffBlockingHook ==
    Done /\ HooksExecuted =>
        /\ exit_code \in {0, 2}
        /\ exit_code = 2 <=> blocking_exits > 0

C1_Witness ==
    /\ Done
    /\ exit_code = 2
    /\ blocking_exits = 1
    /\ faulty = 2

(* the reentrancy marker is set: the variable has a value, as the "1" the  *)
(* dispatcher gives its children                                           *)
MarkerSet == environ_running.t = "str" /\ environ_running.v # <<>>

(* stdin is read and parsed without an exception *)
StdinReadable ==
    /\ stdin_data.kind # "nonobject"
    /\ stdin_errors = "strict" => \A i \in DOMAIN stdin_data.raw : stdin_data.raw[i] # BadByte

(* Routing has run on a tool name that is a string *)
Routed ==
    /\ pc \notin {"start", "routing"}
    /\ ~MarkerSet
    /\ StdinReadable
    /\ tool_name.t = "str"
    /\ tool_name.v # <<>>

(* the matcher, read as an alternation of literals, has an alternative     *)
(* equal to the whole of D                                                 *)
WholeMatch(D, matcher) ==
    \E k \in DOMAIN SplitOn(matcher, "|") : SplitOn(matcher, "|")[k] = D

RECURSIVE WholeMatchHooks(_, _)
WholeMatchHooks(D, rules) ==
    IF rules = <<>> THEN <<>>
    ELSE (IF WholeMatch(D, Head(rules).matcher) THEN Head(rules).hooks ELSE <<>>)
         \o WholeMatchHooks(D, Tail(rules))

(* C2: the hooks the router selects for a tool name D are exactly the      *)
(* concatenation, in registry order, of the hook lists of the rules one of *)
(* whose alternatives equals the whole of D.                               *)
C2_RouterSelectsWholeMatches ==
    Routed => matching_hooks = WholeMatchHooks(tool_name.v, POST_TOOL_USE_CONFIG)

(* C3: whatever the stdin content, argv and hook outcomes, the dispatcher  *)
(* ends with exit code 0 or 2, never another code nor an uncaught          *)
(* exception.                                                              *)
C3_ExitCodeZeroOrTwo == Done => exit_code \in {0, 2} /\ raised = ""

(* no --tool argument with a value *)
NoToolArgument == Len(argv) < 3 \/ argv[2] # DASH_TOOL

(* stdin is empty, is not JSON, or is JSON that carries no tool name *)
MalformedOrAbsentInput ==
    /\ NoToolArgument
    /\ \/ stdin_data.kind \in {"empty", "notjson", "nonobject"}
       \/ stdin_data.tool_name.t \in {"absent", "none"}
       \/ stdin_data.tool_name = Str(<<>>)

NoSubprocessEver ==
    /\ launch_log = <<>>
    /\ \A i \in DOMAIN async_life : async_life[i] = "pending"
    /\ \A i \in DOMAIN sync_life : sync_life[i] = "pending"

NoRuleMatches(D) ==
    \A r \in DOMAIN POST_TOOL_USE_CONFIG : ~match_tool(D, POST_TOOL_USE_CONFIG[r].matcher)

(* C5: for an event whose tool name matches no rule of the registry, the   *)
(* dispatcher exits with code 0 and no hook subprocess is ever launched.   *)
C5_NoMatchExitsZeroNoLaunch ==
    /\ pc # "start"
    /\ ~MarkerSet
    /\ StdinReadable
    /\ tool_name.t = "str"
    /\ tool_name.v # <<>>
    /\ NoRuleMatches(tool_name.v)
    => /\ NoSubprocessEver
       /\ pc \in {"routing", "done"}
       /\ Done => exit_code = 0 /\ raised = ""

C5_Witness ==
    /\ Done
    /\ Routed
    /\ NoRuleMatches(tool_name.v)
    /\ tool_name.v = N_Bash
    /\ exit_code = 0

(* C6: no hook of the sequential partition is launched before the outcome  *)
(* of every hook of the concurrent partition is resolved (it completed,    *)
(* failed to launch or timed out).                                         *)
C6_ConcurrentBatchBeforeSequential ==
    (\E j \in DOMAIN sync_life : sync_life[j] # "pending") =>
        /\ \A i \in DOMAIN async_life : Resolved(async_life[i])
        /\ pc # "exec_concurrent"

C6_Witness ==
    /\ Len(async_life) > 1
    /\ sync_life[1] = "running"
    /\ \E i \in DOMAIN async_life : async_life[i] = "orphan"

RECURSIVE HooksOfMatchingRules(_, _)
(* the hook lists, rule after rule, of the rules tool D selects *)
HooksOfMatchingRules(D, r) ==
    IF r > Len(POST_TOOL_USE_CONFIG) THEN <<>>
    ELSE (IF match_tool(D, POST_TOOL_USE_CONFIG[r].matcher)
          THEN POST_TOOL_USE_CONFIG[r].hooks ELSE <<>>)
         \o HooksOfMatchingRules(D, r + 1)

(* the commands of the non-asyncable hooks of the registry that tool D     *)
(* selects, in registry order: rule order, then position within the rule   *)
RegistrySequential(D) ==
    LET Sequential(h) == h.asyncable = FALSE
        hooks == SelectSeq(HooksOfMatchingRules(D, 1), Sequential)
    IN  [j \in DOMAIN hooks |-> hooks[j].command]

(* the part of launch_log written by the sequential loop *)
SequentialLaunches ==
    IF pc \in {"start", "routing", "exec_concurrent"} THEN <<>>
    ELSE SubSeq(launch_log, Len(async_hooks) + 1, Len(launch_log))

(* C7: the sequential hooks are launched in registry order, and hook k+1   *)
(* only once the outcome of hook k is there: two sequential hooks are      *)
(* never awaited at once.                                                  *)
C7_SequentialInRegistryOrder ==
    Routed =>
        /\ LET registry == RegistrySequential(tool_name.v)
               launches == SequentialLaunches
           IN  /\ Len(launches) <= Len(registry)
               /\ launches = SubSeq(registry, 1, Len(launches))
        /\ \A j \in DOMAIN sync_life :
              (sync_life[j] # "pending") <=> (j <= Len(SequentialLaunches))
        /\ \A j \in DOMAIN sync_life :
              sync_life[j] # "pending" => \A k \in 1..(j - 1) : Resolved(sync_life[k])
        /\ Cardinality({j \in DOMAIN sync_life : sync_life[j] = "running"}) <= 1

C7_Witness ==
    /\ Routed
    /\ Len(sync_life) = 8
    /\ sync_life[8] = "running"
    /\ \E k \in 1..7 : sync_life[k] = "orphan"

(* the subprocesses alive: <<partition, position>> of their hooks *)
AliveSubprocesses ==
    {<<"async", i>> : i \in {k \in DOMAIN async_life : Alive(async_life[k])}}
    \cup {<<"sync", j>> : j \in {k \in DOMAIN sync_life : Alive(sync_life[k])}}

(* C8: the subprocess of a sequential hook is never alive together with    *)
(* the subprocess of another hook of the run, also after a timeout.        *)
C8_SequentialSubprocessAlone ==
    \A h \in AliveSubprocesses : h[1] = "sync" => AliveSubprocesses = {h}

(* C9: once the timeout outcome of a hook is produced, its subprocess is   *)
(* no longer running.                                                      *)
C9_TimedOutSubprocessTerminated ==
    /\ \A i \in DOMAIN async_life : async_life[i] # "orphan"
    /\ \A j \in DOMAIN sync_life : sync_life[j] # "orphan"

(* the outcome r is the made-up one: exit code 1, no stdout *)
IsSynthetic(r) == r.returncode = 1 /\ r.stdout = <<>>

(* C10: a hook that times out or cannot be launched yields the outcome     *)
(* with exit code 1 and empty stdout, raises nothing into the dispatcher   *)
(* and does not make the verdict blocking; a run in which every matched    *)
(* hook times out or fails to launch ends with exit code 0.                *)
C10_TimeoutAndLaunchFailureNonBlocking ==
    [][ /\ \A i \in DOMAIN async_life :
              /\ i \in DOMAIN async_life'
              /\ \/ async_life[i] = "running" /\ async_life'[i] = "orphan"
                 \/ async_life[i] = "pending" /\ async_life'[i] = "ended"
              => IsSynthetic(results'[i]) /\ raised' = "" /\ pc' # "done"
        /\ \A j \in DOMAIN sync_life :
              /\ j \in DOMAIN sync_life'
              /\ \/ sync_life[j] = "running" /\ sync_life'[j] = "orphan"
                 \/ sync_life[j] = "pending" /\ sync_life'[j] = "ended"
              => /\ IsSynthetic(result')
                 /\ raised' = ""
                 /\ pc' # "done"
                 /\ claude_needs_to_know' = claude_needs_to_know
                 /\ stderr_out' = stderr_out
        /\ synthetic' > 0 /\ blocking_exits' = 0 => ~claude_needs_to_know'
        /\ pc' = "done" /\ synthetic' > 0 /\ synthetic' = Len(valid_hooks')
              => exit_code' = 0 /\ raised' = ""
      ]_vars

C10_Witness ==
    /\ Done
    /\ exit_code = 0
    /\ synthetic = Len(valid_hooks)
    /\ \E j \in DOMAIN sync_life : sync_life[j] = "orphan"

(* how many times execute_hook_async was started for the command cmd *)
Launches(cmd) == Cardinality({k \in DOMAIN launch_log : launch_log[k] = cmd})

(* C11: every matched valid hook is launched exactly once in a run: no     *)
(* hook is launched twice (no retry), only valid hooks are launched, and   *)
(* when the run is over none was skipped, whatever its siblings did        *)
(* (blocked, failed to launch, timed out).                                 *)
C11_EveryValidHookLaunchedOnce ==
    /\ \A k \in DOMAIN launch_log :
          /\ Launches(launch_log[k]) = 1
          /\ \E h \in DOMAIN valid_hooks : valid_hooks[h].command = launch_log[k]
    /\ Done => \A h \in DOMAIN valid_hooks : Launches(valid_hooks[h].command) = 1

C11_Witness ==
    /\ Done
    /\ Len(valid_hooks) = 15
    /\ Len(launch_log) = 15
    /\ \E b \in DOMAIN blockers : blockers[b] = <<"sync", 1>>
    /\ \E i \in DOMAIN async_life : async_life[i] = "orphan"

RefersToDispatcher(command) == \E w \in DOMAIN command : command[w] = "post_tool_use.py"

(* a hook the filter has to keep *)
Executable(hook) ==
    hook.type = "command" /\ hook.command # <<>> /\ ~RefersToDispatcher(hook.command)

(* C13: every matched hook whose command contains "post_tool_use.py" is    *)
(* removed before execution (the valid hooks are the matched ones minus    *)
(* the hooks that cannot be executed) and is never launched; filtering the *)
(* filtered list again removes nothing.                                    *)
C13_SelfHooksFilteredOut ==
    /\ valid_hooks = SelectSeq(matching_hooks, Executable)
    /\ \A k \in DOMAIN launch_log : ~RefersToDispatcher(launch_log[k])
    /\ \A h \in DOMAIN async_hooks : ~RefersToDispatcher(async_hooks[h].command)
    /\ \A h \in DOMAIN sync_hooks : ~RefersToDispatcher(sync_hooks[h].command)
    /\ SelectSeq(valid_hooks, IsValidHook) = valid_hooks
    /\ SelectSeq(SelectSeq(matching_hooks, IsValidHook), IsValidHook)
          = SelectSeq(matching_hooks, IsValidHook)

C13_Witness ==
    /\ Done
    /\ launch_log # <<>>
    /\ Len(valid_hooks) = 2
    /\ Len(matching_hooks) = 6
    /\ \E h \in DOMAIN matching_hooks :
          RefersToDispatcher(matching_hooks[h].command) /\ matching_hooks[h].asyncable

(* the subprocess of hook i of the partition part exited 2 with stderr text *)
Blocked(part, i) == \E b \in DOMAIN blockers : blockers[b] = <<part, i>>

RECURSIVE BlockingTexts(_, _, _, _)
(* the stderr texts of the blocking hooks of a partition from position i   *)
(* on, in list order, each after the line that names its hook if announced *)
BlockingTexts(part, hooks, i, announced) ==
    IF i > Len(hooks) THEN <<>>
    ELSE (IF Blocked(part, i)
          THEN (IF announced
                THEN <<"Hook Executed: ">> \o hooks[i].command \o <<NL>> ELSE <<>>)
               \o HookStderr(hooks[i])
          ELSE <<>>)
         \o BlockingTexts(part, hooks, i + 1, announced)

(* C14 as stated: on a blocking verdict the dispatcher's stderr is exactly *)
(* the concatenation of the stderr texts of the blocking hooks and nothing *)
(* else.                                                                   *)
C14_StderrIsBlockingTextsOnly ==
    Done /\ exit_code = 2 =>
        stderr_out = BlockingTexts("async", async_hooks, 1, FALSE)
                     \o BlockingTexts("sync", sync_hooks, 1, FALSE)

(* C14 as amended: on a blocking verdict the dispatcher's stderr is the    *)
(* stderr texts of the blocking concurrent hooks, then for each blocking   *)
(* sequential hook the line "Hook Executed: <command>" followed by its     *)
(* stderr text, and nothing else.                                          *)
C14_StderrIsAnnouncedBlockingTexts ==
    Done /\ exit_code = 2 =>
        stderr_out = BlockingTexts("async", async_hooks, 1, FALSE)
                     \o BlockingTexts("sync", sync_hooks, 1, TRUE)

C14_Witness ==
    /\ Done
    /\ exit_code = 2
    /\ blockers = << <<"async", 2>>, <<"sync", 3>> >>

(* how many times X occurs in text, as a run of consecutive pieces *)
Occurrences(X, text) ==
    Cardinality({k \in 1..(Len(text) - Len(X) + 1) : SubSeq(text, k, k + Len(X) - 1) = X})

OccursAt(X, text, p) == p + Len(X) - 1 <= Len(text) /\ SubSeq(text, p, p + Len(X) - 1) = X

(* the concurrent hooks that blocked *)
BlockedAsync == {i \in DOMAIN async_hooks : Blocked("async", i)}

(* C16: once the batch's loop has run, for any two concurrent hooks that   *)
(* both exited 2 with stderr texts A and B, A the text of the one earlier  *)
(* in the batch's list, the dispatcher's stderr has A in full and then B   *)
(* in full, each unbroken, whichever subprocess ended first; when they are *)
(* the only blocking concurrent hooks, stderr starts with A directly       *)
(* followed by B.                                                          *)
C16_ConcurrentBlockersInBatchOrder ==
    pc \in {"exec_sequential", "aggregating", "done"} =>
        \A i, k \in BlockedAsync :
            i < k =>
                LET A == HookStderr(async_hooks[i])
                    B == HookStderr(async_hooks[k])
                IN  /\ \E p \in DOMAIN stderr_out :
                          /\ OccursAt(A, stderr_out, p)
                          /\ \E q \in (p + Len(A))..Len(stderr_out) :
                                OccursAt(B, stderr_out, q)
                    /\ BlockedAsync = {i, k} =>
                          OccursAt(A \o B, stderr_out, 1)

C16_Witness ==
    /\ pc = "exec_sequential"
    /\ blockers = << <<"async", 5>>, <<"async", 2>> >>
    /\ stderr_out = HookStderr(async_hooks[2]) \o HookStderr(async_hooks[5])

(* C17: every subprocess created for a hook is handed, on its stdin, the   *)
(* dispatcher's own stdin content, byte for byte, the same for every hook  *)
(* of both partitions, whether that content is valid JSON or not.          *)
C17_HooksGetRawStdin ==
    /\ \A c \in handed : c.stdin = stdin_data.raw
    /\ Cardinality(handed) <= 1

(* the pieces a hook's subprocess can have written to its stdout *)
StdoutPieces == {"out:", "partial output"}

(* C18: the dispatcher writes nothing to its own stdout, and no piece of a *)
(* hook's stdout is ever in what it writes to its stderr: a hook's stdout  *)
(* is dropped, whatever the hook's outcome.                                *)
C18_HookStdoutNeverForwarded ==
    /\ stdout_out = <<>>
    /\ \A k \in DOMAIN stderr_out : stderr_out[k] \notin StdoutPieces

C18_Witness ==
    /\ pc = "exec_sequential"
    /\ result.returncode = 2
    /\ result.stdout # <<>>
    /\ \E b \in DOMAIN blockers : blockers[b] = <<"async", 1>>
    /\ blockers[Len(blockers)] = <<"sync", hook_idx - 1>>

RECURSIVE StdoutInConfigOrder(_)
(* the stdout texts that are not empty of the hooks from position i on, in *)
(* the order of the registry, one after the other                          *)
StdoutInConfigOrder(i) ==
    IF i > Len(stop_config) THEN <<>>
    ELSE results[i].stdout \o StdoutInConfigOrder(i + 1)

(* C19: the Stop dispatcher writes to its stdout the stdout texts of its   *)
(* hooks, blocking or not, joined in the order of the registry; the text   *)
(* is written before anything is written to stderr and before the verdict  *)
(* is returned.                                                            *)
C19_StopForwardsStdoutFirst ==
    /\ \/ pc \in {"stop_write_stderr", "stop_return"}
       \/ Done /\ raised = "" /\ stop_config # <<>>
       => stdout_out = StdoutInConfigOrder(1)
    /\ pc \in {"start", "stop_gather", "stop_write_stdout"} =>
          stderr_out = <<>> /\ exit_code = -1

C19_Witness ==
    /\ pc = "stop_write_stderr"
    /\ stop_config = STOP_CONFIG_OF_THREE
    /\ results[1].returncode = 2 /\ results[1].stdout # <<>>
    /\ results[2] = Clean
    /\ results[3].returncode = 0 /\ results[3].stdout # <<>>
    /\ stdout_out = HookStdout(stop_config[1]) \o HookStdout(stop_config[3])
    /\ all_stderr # <<>>

(* START, ROUTING, EXECUTING-CONCURRENT, EXECUTING-SEQUENTIAL, AGGREGATING *)
(* and DONE, numbered in that order                                        *)
Rank(p) ==
    CASE p = "start" -> 0
      [] p = "routing" -> 1
      [] p = "exec_concurrent" -> 2
      [] p = "exec_sequential" -> 3
      [] p = "aggregating" -> 4
      [] p = "done" -> 5

(* C20: a run never moves to an earlier state of START, ROUTING,           *)
(* EXECUTING-CONCURRENT, EXECUTING-SEQUENTIAL, AGGREGATING, DONE, stays in *)
(* DONE once there, and, every awaited subprocess ending or reaching its   *)
(* timeout, eventually reaches DONE.                                       *)
C20_ForwardOnlyAndTerminates ==
    /\ [][Rank(pc') >= Rank(pc) /\ (Done => pc' = "done" /\ exit_code' = exit_code)]_vars
    /\ <>Done

C20_Witness ==
    /\ Done
    /\ Len(launch_log) = 15
    /\ \E i \in DOMAIN async_life : async_life[i] = "orphan"
    /\ \E j \in DOMAIN sync_life : sync_life[j] = "orphan"

(* every matched hook of both partitions has its outcome *)
AllHooksCompleted ==
    /\ \A i \in DOMAIN async_life : Resolved(async_life[i])
    /\ \A j \in DOMAIN sync_life : Resolved(sync_life[j])

(* a blocking hook's stderr text is on the dispatcher's stderr *)
BlockingTextWritten ==
    \/ \E i \in DOMAIN async_hooks :
          Blocked("async", i) /\ Occurrences(HookStderr(async_hooks[i]), stderr_out) > 0
    \/ \E j \in DOMAIN sync_hooks :
          Blocked("sync", j) /\ Occurrences(HookStderr(sync_hooks[j]), stderr_out) > 0

(* C21 as stated: no blocking hook's stderr text is written to the         *)
(* dispatcher's stderr while any matched hook, of either partition, has    *)
(* not yet been launched or is still awaited.                              *)
C21_FeedbackAfterAllHooksCompleted ==
    BlockingTextWritten => AllHooksCompleted

(* C21 as amended: nothing is written to stderr while the concurrent batch *)
(* is not launched or is awaited; the blocking text of a sequential hook   *)
(* is written only once that hook and every hook before it (the whole      *)
(* concurrent batch and the earlier sequential hooks) have their outcomes, *)
(* later sequential hooks being still unlaunched then; and the exit code   *)
(* is returned only when every matched hook has its outcome.               *)
C21_FeedbackAfterEarlierHooksCompleted ==
    /\ pc = "exec_concurrent" => stderr_out = <<>>
    /\ BlockingTextWritten =>
          /\ \A i \in DOMAIN async_life : Resolved(async_life[i])
          /\ \A j \in DOMAIN sync_hooks :
                Blocked("sync", j) =>
                    /\ \A k \in 1..j : Resolved(sync_life[k])
                    /\ Occurrences(HookStderr(sync_hooks[j]), stderr_out) = 1
    /\ pc = "exec_sequential" =>
          \A k \in DOMAIN sync_life : k > hook_idx => sync_life[k] = "pending"
    /\ Done /\ HooksExecuted => AllHooksCompleted

C21_Witness ==
    /\ pc = "exec_sequential"
    /\ BlockingTextWritten
    /\ Blocked("async", 2)
    /\ Blocked("sync", 3)
    /\ \E k \in DOMAIN sync_life : sync_life[k] = "pending"

(* the payload's cwd member when stdin is a JSON object that has one, the  *)
(* dispatcher's own working directory otherwise                            *)
PayloadCwdOrOwn ==
    IF stdin_data.kind = "object" /\ stdin_data.cwd.t # "absent"
    THEN stdin_data.cwd ELSE getcwd

(* C22: every subprocess created for a hook runs in, and has as            *)
(* CLAUDE_CODE_CWD, the payload's cwd when the payload has that member,    *)
(* and the dispatcher's own working directory when the member is absent,   *)
(* stdin is empty or is not JSON; it is the same for all hooks of a run.   *)
C22_HooksRunInPayloadCwd ==
    /\ \A c \in handed :
          /\ c.cwd = PayloadCwdOrOwn
          /\ c.env.CLAUDE_CODE_CWD = PayloadCwdOrOwn
    /\ \A c, d \in handed : c.cwd = d.cwd /\ c.env.CLAUDE_CODE_CWD = d.env.CLAUDE_CODE_CWD

C22_Witness ==
    /\ Done
    /\ stdin_data.kind = "object"
    /\ stdin_data.cwd = PROJ
    /\ getcwd # PROJ
    /\ \E c \in handed : c.cwd = PROJ /\ c.env.CLAUDE_CODE_CWD = PROJ
    /\ Len(launch_log) = 15
    /\ \E i \in DOMAIN async_life : async_life[i] = "ended"
    /\ \E j \in DOMAIN sync_life : sync_life[j] = "ended"

(* where the stderr text of hook i of the batch starts in the dispatcher's *)
(* stderr, 0 when it is not there                                          *)
TextStart(i) ==
    LET X == HookStderr(async_hooks[i])
        at == {p \in DOMAIN stderr_out : OccursAt(X, stderr_out, p)}
    IN  IF at = {} THEN 0 ELSE CHOOSE p \in at : \A q \in at : p <= q

(* C23 as stated: the stderr texts of the blocking hooks of the concurrent *)
(* batch are on the dispatcher's stderr in the order in which the hooks'   *)
(* outcomes became available: the text of a hook whose subprocess ended    *)
(* first comes first.                                                      *)
C23_ConcurrentBlockersInCompletionOrder ==
    pc \in {"exec_sequential", "aggregating", "done"} =>
        \A p, q \in DOMAIN blockers :
            p < q /\ blockers[p][1] = "async" /\ blockers[q][1] = "async" =>
                /\ TextStart(blockers[p][2]) > 0
                /\ TextStart(blockers[p][2]) < TextStart(blockers[q][2])

(* C23 as amended: the order in which the outcomes became available has no *)
(* effect; of two blocking hooks of the batch the text of the one with the *)
(* smaller position in the batch's list comes first, also when its         *)
(* subprocess ended last.                                                  *)
C23_CompletionOrderIgnored ==
    pc \in {"exec_sequential", "aggregating", "done"} =>
        \A p, q \in DOMAIN blockers :
            p < q /\ blockers[p][1] = "async" /\ blockers[q][1] = "async" =>
                LET first == IF blockers[p][2] < blockers[q][2] THEN blockers[p][2]
                             ELSE blockers[q][2]
                    second == IF blockers[p][2] < blockers[q][2] THEN blockers[q][2]
                              ELSE blockers[p][2]
                IN  /\ TextStart(first) > 0
                    /\ TextStart(first) < TextStart(second)

C23_Witness ==
    /\ Done
    /\ exit_code = 2
    /\ blockers = << <<"async", 5>>, <<"async", 2>> >>
    /\ TextStart(2) = 1
    /\ TextStart(5) > TextStart(2)

(* where the stderr text of sequential hook j starts in the dispatcher's   *)
(* stderr, 0 when it is not there                                          *)
SyncTextStart(j) ==
    LET X == HookStderr(sync_hooks[j])
        at == {p \in DOMAIN stderr_out : OccursAt(X, stderr_out, p)}
    IN  IF at = {} THEN 0 ELSE CHOOSE p \in at : \A q \in at : p <= q

(* C24: on the dispatcher's stderr the text of every blocking hook of the  *)
(* concurrent partition comes before the text of every blocking hook of    *)
(* the sequential partition, and the texts of blocking sequential hooks    *)
(* are in registry order.                                                  *)
C24_ConcurrentTextsBeforeSequentialTexts ==
    \A j \in DOMAIN sync_hooks :
        Blocked("sync", j) =>
            /\ SyncTextStart(j) > 0
            /\ \A i \in DOMAIN async_hooks :
                  Blocked("async", i) =>
                      /\ TextStart(i) > 0
                      /\ TextStart(i) + Len(HookStderr(async_hooks[i])) <= SyncTextStart(j)
            /\ \A k \in DOMAIN sync_hooks :
                  k < j /\ Blocked("sync", k) =>
                      /\ SyncTextStart(k) > 0
                      /\ SyncTextStart(k) + Len(HookStderr(sync_hooks[k])) <= SyncTextStart(j)

C24_Witness ==
    /\ Done
    /\ exit_code = 2
    /\ \/ Blocked("async", 5) /\ Blocked("sync", 8)
       \/ Blocked("sync", 3) /\ Blocked("sync", 8)
    /\ SyncTextStart(8) > 2

(* the dispatcher was started as "post_tool_use.py --tool X" *)
ToolArgument == Len(argv) >= 3 /\ argv[2] = DASH_TOOL

(* the tool_name member of the payload, None when stdin has no such member *)
PayloadTool == IF stdin_data.kind = "object" THEN Get(stdin_data.tool_name, None) ELSE None

(* the run got past the reentrancy guard and the read of stdin *)
InputTaken == pc # "start" /\ ~MarkerSet /\ StdinReadable

(* C25 as stated: started with "--tool X" the dispatcher routes on X,      *)
(* whatever tool_name the payload has and also when stdin is empty or not  *)
(* JSON; the payload's tool_name is the tool name only when no --tool      *)
(* argument is given.                                                      *)
C25_ToolArgumentOverridesPayload ==
    InputTaken =>
        /\ ToolArgument => tool_name = Str(argv[3])
        /\ tool_name # ArgvTool => ~ToolArgument /\ tool_name = PayloadTool

(* C25 as amended: started with "--tool X", X not empty, the dispatcher    *)
(* routes on X whatever the payload has, also on empty and non-JSON stdin; *)
(* an empty X counts as no --tool argument; without a --tool argument the  *)
(* tool name is the payload's tool_name.                                   *)
C25_NonEmptyToolArgumentOverridesPayload ==
    InputTaken =>
        /\ ToolArgument /\ argv[3] # <<>> =>
              /\ tool_name = Str(argv[3])
              /\ pc = "done" => exit_code # 1 \/ launch_log # <<>>
        /\ ToolArgument /\ argv[3] = <<>> =>
              tool_name = IF stdin_data.kind = "object" THEN PayloadTool ELSE Str(<<>>)
        /\ ~ToolArgument => tool_name = PayloadTool

C25_Witness ==
    /\ Done
    /\ argv = <<PROG, DASH_TOOL, N_Task>>
    /\ stdin_data = Payload(Str(N_Bash), PROJ)
    /\ tool_name = Str(N_Task)
    /\ launch_log # <<>>

RECURSIVE StopBlockingTexts(_)
(* the stderr texts of the hooks of the Stop registry, from position i on, *)
(* that returned exit code 2 with stderr text, in registry order           *)
StopBlockingTexts(i) ==
    IF i > Len(stop_config) THEN <<>>
    ELSE (IF i \in DOMAIN results /\ StopBlocks(results[i]) THEN results[i].stderr ELSE <<>>)
         \o StopBlockingTexts(i + 1)

(* C26: whatever its stdin, the Stop dispatcher with a non-empty registry  *)
(* starts every hook of the registry, waits for all outcomes and ends with *)
(* exit code 2 if and only if some hook returned exit code 2 with stderr   *)
(* text, with exit code 0 otherwise; its stderr is then the stderr texts   *)
(* of exactly the blocking hooks, in registry order.                       *)
C26_StopBlocksIffSomeHookBlocks ==
    Done /\ stop_config # <<>> =>
        /\ DOMAIN stop_life = DOMAIN stop_config
        /\ \A i \in DOMAIN stop_life : Resolved(stop_life[i])
        /\ exit_code = IF \E i \in DOMAIN results : StopBlocks(results[i]) THEN 2 ELSE 0
        /\ stderr_out = StopBlockingTexts(1)

(***************************************************************************)
(* stop/check_todos_completed.py, the hook of the Stop registry.  One run  *)
(* of the script: main() opens the debug log and reads stdin, the pipeline *)
(* decides, and the handler of main() takes what the pipeline raised.      *)
(* SpecTodoCheck runs the script on its own.                               *)
(***************************************************************************)
EXIT_CODE_ALLOW == 0

EXIT_CODE_BLOCK == 2

UNRESOLVED_STATUSES == {<<"pending">>, <<"in_progress">>}

TODO_PROG == <<"check_todos_completed.py">>

(* the session the file todo_file belongs to; no other session has a file *)
SESSION == <<"s1">>

(* an element of the list in a todo file: a JSON object, here with its     *)
(* members id and status, or some other JSON value                         *)
TodoItem(id, status) == [t |-> "object", id |-> id, status |-> status]

NotATodo == [t |-> "str", id |-> Absent, status |-> Absent]

(* a todo file that is not JSON or cannot be read, one that holds a JSON   *)
(* object, one that holds a list                                           *)
GarbageTodoFile == [exists |-> TRUE, kind |-> "garbage", todos |-> <<>>]

ObjectTodoFile == [exists |-> TRUE, kind |-> "object", todos |-> <<>>]

TodoList(todos) == [exists |-> TRUE, kind |-> "list", todos |-> todos]

Pending == TodoItem(Absent, Str(<<"pending">>))

InProgress == TodoItem(Absent, Str(<<"in_progress">>))

Completed == TodoItem(Absent, Str(<<"completed">>))

TodoFiles ==
    { NoTodoFile, GarbageTodoFile, ObjectTodoFile,
      TodoList(<<>>), TodoList(<<Completed>>), TodoList(<<Pending>>),
      TodoList(<<InProgress>>), TodoList(<<Completed, Pending>>),
      TodoList(<<Completed, Completed>>), TodoList(<<InProgress, Completed>>),
      TodoList(<<TodoItem(Absent, Absent)>>),
      TodoList(<<TodoItem(Absent, Str(<<"cancelled">>))>>),
      TodoList(<<Pending, NotATodo>>), TodoList(<<NotATodo>>) }

TodoStdins ==
    { EmptyStdin, BlankStdin, NotJson, JsonArray,
      StopPayload(Absent, PROJ), StopPayload(None, PROJ), StopPayload(Str(<<>>), PROJ),
      StopPayload(Str(SESSION), PROJ), StopPayload(Str(<<"s2">>), PROJ),
      StopPayload(Num(<<"7">>), PROJ),
      WithBadByte(StopPayload(Str(SESSION), PROJ)) }

(* what ends a step of the script: an exit with a code after writing out   *)
(* to stdout, or an exception                                              *)
Exits(code, out) == [raises |-> "", code |-> code, out |-> out]

Raises(exc) == [raises |-> exc, code |-> -1, out |-> <<>>]

(* lines 94-104: whether parse_input() leaves with sys.exit(0): nothing    *)
(* but white space, or text json.loads rejects                             *)
parse_input_exits(stdin) == stdin.kind \in {"empty", "blank", "notjson"}

(* lines 107-133: the list in the session's todo file, None when the file  *)
(* is missing, cannot be read or parsed, or holds no list                  *)
get_todos_from_file(session_id) ==
    LET file == IF session_id = Str(SESSION) THEN todo_file ELSE NoTodoFile
    IN  IF file.exists /\ file.kind = "list" THEN [t |-> "list", v |-> file.todos]
        ELSE [t |-> "none", v |-> <<>>]

(* line 147: todo.get("status") in Config.UNRESOLVED_STATUSES *)
IsUnresolved(todo) == todo.status.t = "str" /\ todo.status.v \in UNRESOLVED_STATUSES

(* lines 137-147: the todos that are pending or in progress *)
check_unresolved_todos(todos) == SelectSeq(todos, IsUnresolved)

(* lines 164-166: the JSON object printed for the unresolved todos *)
BlockResponse(unresolved) ==
    <<"{\"decision\": \"block\", \"reason\": \"">>
    \o Join([i \in DOMAIN unresolved |-> unresolved[i].status.v])
    \o <<"\"}", NL>>

(* lines 150-167 *)
handle_findings(unresolved) ==
    IF unresolved = <<>> THEN Exits(EXIT_CODE_ALLOW, <<>>)
    ELSE Exits(EXIT_CODE_BLOCK, BlockResponse(unresolved))

(* lines 67-91: execute_hook_pipeline() on the text main() has read.       *)
(* data.get of a JSON value that is not an object, and todo.get of a list  *)
(* element that is not an object, raise AttributeError.                    *)
execute_hook_pipeline(stdin) ==
    IF parse_input_exits(stdin) THEN Exits(EXIT_CODE_ALLOW, <<>>)
    ELSE IF stdin.kind = "nonobject" THEN Raises("AttributeError")
    ELSE LET session_id == Get(stdin.session_id, Str(<<>>))
             todos == get_todos_from_file(session_id)
         IN  IF ~Truthy(session_id) THEN Exits(EXIT_CODE_ALLOW, <<>>)
             ELSE IF todos.t = "none" THEN Exits(EXIT_CODE_ALLOW, <<>>)
             ELSE IF \E i \in DOMAIN todos.v : todos.v[i].t # "object"
             THEN Raises("AttributeError")
             ELSE handle_findings(check_unresolved_todos(todos.v))

(* lines 52-58: what stops main() before the pipeline: the log cannot be   *)
(* opened, stdin cannot be decoded, or the text read cannot be written to  *)
(* the log, which is opened as UTF-8; "" when nothing does                 *)
MainRaises(stdin, errors) ==
    IF ~log_writable THEN "OSError"
    ELSE IF ~Decodable(stdin.raw, errors) THEN "UnicodeDecodeError"
    ELSE IF ~Encodable(Decode(stdin.raw)) THEN "UnicodeEncodeError"
    ELSE ""

(* lines 61-64: the handler of main() writes to the log before it exits; *)
(* an exception it raises itself leaves the script with a traceback and    *)
(* exit status 1                                                           *)
HandlerResult(exc) ==
    IF log_writable THEN Exits(EXIT_CODE_ALLOW, <<>>) ELSE Raises("OSError")

(* lines 50-64: the whole run of the script on stdin *)
TodoCheckRun(stdin, errors) ==
    LET early == MainRaises(stdin, errors)
        piped == execute_hook_pipeline(stdin)
    IN  IF early # "" THEN HandlerResult(early)
        ELSE IF piped.raises # "" THEN HandlerResult(piped.raises)
        ELSE piped

todo_unchanged ==
    <<inputs, hook_state, stop_vars, locals, claude_needs_to_know, results, hook_idx, result,
      async_life, sync_life, faulty, launch_log, history>>

(* lines 50-58 *)
TodoCheckMain ==
    /\ pc = "start"
    /\ IF MainRaises(stdin_data, stdin_errors) # ""
       THEN pc' = "todo_except" /\ raised' = MainRaises(stdin_data, stdin_errors)
       ELSE pc' = "todo_pipeline" /\ raised' = raised
    /\ UNCHANGED <<todo_unchanged, stdout_out, stderr_out, exit_code>>

(* line 60, lines 67-167 *)
TodoCheckPipeline ==
    /\ pc = "todo_pipeline"
    /\ LET r == execute_hook_pipeline(stdin_data)
       IN  IF r.raises # ""
           THEN /\ pc' = "todo_except"
                /\ raised' = r.raises
                /\ UNCHANGED <<stdout_out, stderr_out, exit_code>>
           ELSE /\ stdout_out' = stdout_out \o r.out
                /\ Return(r.code, <<>>)
    /\ UNCHANGED todo_unchanged

(* lines 61-64 *)
TodoCheckExcept ==
    /\ pc = "todo_except"
    /\ LET r == HandlerResult(raised)
       IN  IF r.raises # "" THEN Raise(r.raises) ELSE Return(r.code, <<>>)
    /\ UNCHANGED <<todo_unchanged, stdout_out>>

InitTodoCheck ==
    /\ InitWith({<<TODO_PROG>>}, TodoStdins, {<<>>})
    /\ environ_running = None
    /\ stop_config = <<>>
    /\ log_writable \in BOOLEAN
    /\ todo_file \in TodoFiles
    /\ knowledge_files = {}
    /\ transcript = <<>>
    /\ event = NoEvent
    /\ inserted = {}

NextTodoCheck ==
    \/ TodoCheckMain
    \/ TodoCheckPipeline
    \/ TodoCheckExcept

SpecTodoCheck == InitTodoCheck /\ [][NextTodoCheck]_vars

(* the input is valid JSON with a non-empty session_id *)
NamesSession ==
    /\ stdin_data.kind = "object"
    /\ \A i \in DOMAIN stdin_data.raw : stdin_data.raw[i] # BadByte
    /\ Truthy(Get(stdin_data.session_id, Str(<<>>)))

(* the todo file of the input's session exists and holds a list of todos,  *)
(* one of them pending or in progress                                      *)
HasUnresolvedTodo ==
    /\ stdin_data.session_id = Str(SESSION)
    /\ todo_file.exists
    /\ todo_file.kind = "list"
    /\ \A i \in DOMAIN todo_file.todos : todo_file.todos[i].t = "object"
    /\ \E i \in DOMAIN todo_file.todos :
          todo_file.todos[i].status \in {Str(<<"pending">>), Str(<<"in_progress">>)}

(* C27: check_todos_completed exits with code 2, having printed a JSON     *)
(* object with decision "block" on stdout, exactly when its input is valid *)
(* JSON with a non-empty session_id and the session's todo file holds a    *)
(* list with a pending or in_progress todo; in every other case, any       *)
(* exception included, it exits with code 0.                               *)
C27_TodoCheckBlocksIffUnresolved ==
    Done =>
        IF NamesSession /\ HasUnresolvedTodo
        THEN /\ exit_code = 2
             /\ stdout_out # <<>>
             /\ Head(stdout_out) = "{\"decision\": \"block\", \"reason\": \""
        ELSE /\ exit_code = 0
             /\ stdout_out = <<>>

(***************************************************************************)
(* stop.py running the hook of its registry, check_todos_completed.py.     *)
(* SpecStopTodos is the Stop dispatcher with STOP_HOOK_CONFIG, the outcome *)
(* of its subprocess being what "uv run" makes of a run of the script on   *)
(* the stdin the dispatcher hands it.                                      *)
(***************************************************************************)

(* what uv itself can have written to stderr before it ran the script:     *)
(* nothing, or a notice                                                    *)
UvNotices == {<<>>, <<"Reading inline script metadata", NL>>}

(* stop.py lines 39-52 for "uv run check_todos_completed.py": the exit     *)
(* status, stdout and stderr of the subprocess; a traceback when the       *)
(* script ended with an exception                                          *)
TodoCheckOutcome(notice) ==
    LET r == TodoCheckRun(stdin_data, stdin_errors)
    IN  IF r.raises # ""
        THEN Outcome(1, <<>>, notice \o <<"Traceback (most recent call last):", r.raises>>)
        ELSE Outcome(r.code, r.out, notice)

(* stop.py lines 46-52: the subprocess of the todo check ends *)
StopTodoCheckExit(i) ==
    /\ pc = "stop_gather"
    /\ stop_life[i] = "running"
    /\ \E notice \in UvNotices :
          results' = [results EXCEPT ![i] = Returned(TodoCheckOutcome(notice))]
    /\ stop_life' = [stop_life EXCEPT ![i] = "ended"]
    /\ UNCHANGED <<inputs, hook_state, locals, pc, claude_needs_to_know, hook_idx, result,
                   async_life, sync_life, stdout_out, stderr_out, exit_code, raised,
                   faulty, launch_log, history, stop_config, should_block, all_stdout,
                   all_stderr>>

InitStopTodos ==
    /\ InitWith({<<STOP_PROG>>}, TodoStdins, {<<>>})
    /\ environ_running = None
    /\ stop_config = STOP_HOOK_CONFIG
    /\ log_writable \in BOOLEAN
    /\ todo_file \in TodoFiles
    /\ knowledge_files = {}
    /\ transcript = <<>>
    /\ event = NoEvent
    /\ inserted = {}

NextStopTodos ==
    \/ StopParseInput
    \/ StopLaunch
    \/ \E i \in DOMAIN stop_life : StopTodoCheckExit(i)
    \/ \E i \in DOMAIN stop_life : StopHookTimeout(i)
    \/ StopCollect
    \/ StopWriteStdout
    \/ StopWriteStderr
    \/ StopReturn
    \/ \E i \in DOMAIN stop_life : StopOrphanExit(i)

SpecStopTodos == InitStopTodos /\ [][NextStopTodos]_vars

(* C28: whenever the todo file of the session the Stop event names holds a *)
(* pending or in_progress todo, stop.py, running the todo check of its     *)
(* registry to its end, exits with the blocking code 2.                    *)
C28_StopBlockedByUnresolvedTodo ==
    (/\ Done
     /\ NamesSession
     /\ HasUnresolvedTodo
     /\ \A i \in DOMAIN stop_life : stop_life[i] = "ended"
     /\ \E i \in DOMAIN results : results[i].returncode = EXIT_CODE_BLOCK)
        => exit_code = 2

(***************************************************************************)
(* The knowledge injector (hooks/post-tool-use/inject_knowledge.py)        *)
(*                                                                         *)
(* A path is the sequence of its names from the filesystem root; a         *)
(* transcript is the sequence of its entries, each with the one content    *)
(* block the injector looks at.  SpecKnowledge is a session: the host      *)
(* appends an entry to the transcript, then runs the script on an event.   *)
(***************************************************************************)

(* at most this many entries are appended to the transcript *)
MaxTranscript == 2

KNOWLEDGE_FILES == {"claude.md", "agents.md", "readme.md"}

(* lines 294-300 *)
RelevantTools == {"Read", "Write", "Edit", "MultiEdit", "NotebookEdit"}

ROOT == <<"proj">>
PKG == <<"proj", "pkg">>
CORE == <<"proj", "pkg", "core">>
ELSEWHERE == <<"other">>

K_ROOT == ROOT \o <<"CLAUDE.md">>
K_PKG == PKG \o <<"CLAUDE.md">>
K_CORE == CORE \o <<"AGENTS.md">>

(* Path(__file__).resolve(): the script, here installed inside the project *)
KNOWLEDGE_SCRIPT == CORE \o <<"inject_knowledge.py">>

(* the directories that hold a project marker (.git, pyproject.toml, ...) *)
Marked == {ROOT}

(* str.lower() on the names there are *)
Lower(name) ==
    CASE name = "CLAUDE.md" -> "claude.md"
      [] name = "AGENTS.md" -> "agents.md"
      [] OTHER -> name

LowerPath(path) == [i \in DOMAIN path |-> Lower(path[i])]

Parent(path) == SubSeq(path, 1, Len(path) - 1)

(* path.relative_to(root) does not raise ValueError *)
IsUnder(path, root) ==
    /\ Len(root) <= Len(path)
    /\ SubSeq(path, 1, Len(root)) = root

RelativeTo(path, root) == SubSeq(path, Len(root) + 1, Len(path))

(* str(path) of an absolute path, piece by piece *)
RECURSIVE PathStr(_)

PathStr(path) == IF path = <<>> THEN <<>> ELSE <<"/", Head(path)>> \o PathStr(Tail(path))

RECURSIVE MarkedAbove(_, _)

MarkedAbove(current, fallback) ==
    IF current = <<>> THEN fallback
    ELSE IF current \in Marked THEN current
    ELSE MarkedAbove(Parent(current), fallback)

find_project_root(file_path) == MarkedAbove(Parent(file_path), Parent(file_path))

(* line 116 *)
ProjectRoot(file_path, cwd) == IF cwd # <<>> THEN cwd ELSE find_project_root(file_path)

(* lines 147-182: the knowledge files of one directory; a directory here   *)
(* holds at most one, so the order of iterdir() does not show              *)
RECURSIVE InfosOf(_, _, _)

InfosOf(files, project_root, distance) ==
    IF files = {} THEN <<>>
    ELSE LET file == CHOOSE f \in files : TRUE
         IN <<[path |-> RelativeTo(file, project_root),
               distance |-> distance,
               type |-> IF Lower(file[Len(file)]) = "claude.md" THEN "claude" ELSE "agents"]>>
            \o InfosOf(files \ {file}, project_root, distance)

KnowledgeIn(files, current_dir, project_root, distance) ==
    InfosOf({f \in files : Parent(f) = current_dir /\ Lower(f[Len(f)]) \in KNOWLEDGE_FILES},
            project_root, distance)

(* lines 144-188: from the file's directory up to the project root, which  *)
(* is skipped                                                              *)
RECURSIVE WalkUp(_, _, _, _)

WalkUp(files, current_dir, project_root, distance) ==
    IF ~IsUnder(current_dir, project_root) \/ current_dir = project_root THEN <<>>
    ELSE KnowledgeIn(files, current_dir, project_root, distance)
         \o WalkUp(files, Parent(current_dir), project_root, distance + 1)

find_knowledge_files(files, file_path, project_root) ==
    IF ~IsUnder(file_path, project_root) THEN <<>>
    ELSE WalkUp(files, Parent(file_path), project_root, 0)

(* a transcript line: the entry's type, its message's role and the one     *)
(* content block, with the block's type, name and input.file_path          *)
Entry(type, role, block, name, file_path) ==
    [type |-> type, role |-> role, block |-> block, name |-> name, file_path |-> file_path]

ToolUse(name, file_path) == Entry("assistant", "assistant", "tool_use", name, file_path)

has_knowledge_been_read_anyTool(lines, knowledge_path) ==
    \E i \in DOMAIN lines :
        /\ lines[i].type = "assistant"
        /\ lines[i].role = "assistant"
        /\ lines[i].block = "tool_use"
        /\ lines[i].file_path = knowledge_path

has_knowledge_been_read(lines, knowledge_path) ==
    \E i \in DOMAIN lines :
        /\ lines[i].type = "assistant"
        /\ lines[i].role = "assistant"
        /\ lines[i].block = "tool_use"
        /\ lines[i].name = "Read"
        /\ lines[i].file_path = knowledge_path

TypeDisplay(type) == IF type = "claude" THEN "CLAUDE" ELSE "AGENTS"

WarningMessage(type, full_path) ==
    <<"ACTION REQUIRED: Use Read tool to read ", TypeDisplay(type),
      " knowledge immediately. READ NOW.", NL,
      "You MUST read the following knowledge file before proceeding:", NL>>
    \o PathStr(full_path) \o <<NL, NL>>

check_and_inject(files, lines, project_root, knowledge_info) ==
    LET full_path == project_root \o knowledge_info.path
    IN IF full_path \notin files THEN <<>>
       ELSE IF has_knowledge_been_read(lines, full_path) THEN <<>>
       ELSE WarningMessage(knowledge_info.type, full_path)

(* line 354 *)
RECURSIVE JoinMessages(_)

JoinMessages(messages) ==
    IF Len(messages) = 1 THEN messages[1]
    ELSE messages[1] \o <<NL, NL>> \o JoinMessages(Tail(messages))

(* a PostToolUse event as the script reads it from stdin; file is the      *)
(* file_path or notebook_path of tool_input, <<>> when it has neither      *)
ToolEvent(tool, file, cwd) == [kind |-> "event", tool |-> tool, file |-> file, cwd |-> cwd]

EmptyEvent == [kind |-> "empty", tool |-> <<>>, file |-> <<>>, cwd |-> <<>>]

NotJsonEvent == [kind |-> "notjson", tool |-> <<>>, file |-> <<>>, cwd |-> <<>>]

Skipping(what) == [code |-> 0, out |-> <<"[inject-knowledge] ">> \o what \o <<NL>>, err |-> <<>>]

(* lines 277-359 *)
handle(files, lines, e) ==
    IF e.kind = "empty" THEN Skipping(<<"Skipping: No input provided">>)
    ELSE IF e.kind = "notjson" THEN Skipping(<<"Skipping: Invalid input format">>)
    ELSE IF e.tool \notin RelevantTools THEN Skipping(<<"Skipping: Tool ", e.tool, " not relevant">>)
    ELSE IF e.file = <<>> THEN Skipping(<<"Skipping: No file path provided">>)
    ELSE IF e.file = KNOWLEDGE_SCRIPT THEN Skipping(<<"Skipping: Self-reference detected">>)
    ELSE
    LET project_root == ProjectRoot(e.file, e.cwd)
        knowledge_infos == find_knowledge_files(files, e.file, project_root)
        current_path_str == RelativeTo(e.file, project_root)
        filtered_knowledge_infos ==
            SelectSeq(knowledge_infos,
                      LAMBDA info : LowerPath(info.path) # LowerPath(current_path_str))
        messages ==
            [i \in DOMAIN filtered_knowledge_infos |->
                check_and_inject(files, lines, project_root, filtered_knowledge_infos[i])]
        messages_to_inject == SelectSeq(messages, LAMBDA m : m # <<>>)
    IN IF knowledge_infos = <<>> THEN Skipping(<<"Success: No knowledge files found">>)
       ELSE IF filtered_knowledge_infos = <<>>
            THEN Skipping(<<"Success: No relevant knowledge files found">>)
       ELSE IF messages_to_inject # <<>>
            THEN [code |-> 2, out |-> <<>>, err |-> JoinMessages(messages_to_inject) \o <<NL>>]
       ELSE Skipping(<<"Success: All knowledge files already in context">>)

KnowledgeSets == {{}, {K_PKG}, {K_PKG, K_CORE}, {K_ROOT, K_PKG, K_CORE}}

EventFiles ==
    { ROOT \o <<"main.py">>, PKG \o <<"mod.py">>, CORE \o <<"impl.py">>, K_PKG, K_CORE,
      PKG \o <<"claude.md">>, KNOWLEDGE_SCRIPT, ELSEWHERE \o <<"notes.txt">>, <<>> }

Events ==
    {EmptyEvent, NotJsonEvent}
    \cup {ToolEvent(tool, file, cwd) :
            tool \in RelevantTools \cup {"Bash"}, file \in EventFiles, cwd \in {ROOT, PKG, <<>>}}

TranscriptEntries ==
    { ToolUse("Read", K_PKG), ToolUse("Read", K_CORE), ToolUse("Write", K_PKG),
      Entry("user", "user", "tool_result", "Read", K_CORE),
      ToolUse("Read", <<"pkg", "CLAUDE.md">>) }

session_unchanged ==
    <<inputs, log_writable, todo_file, stop_vars, locals, claude_needs_to_know, results,
      hook_idx, result, async_life, sync_life, faulty, launch_log, history, raised,
      inserted>>

(* the host writes the next line of the session's transcript; the output   *)
(* and the exit code of the script's last run are gone with its process    *)
TranscriptAppend(entry) ==
    /\ Len(transcript) < MaxTranscript
    /\ transcript' = Append(transcript, entry)
    /\ pc' = "start"
    /\ event' = NoEvent
    /\ stdout_out' = <<>>
    /\ stderr_out' = <<>>
    /\ exit_code' = -1
    /\ UNCHANGED <<session_unchanged, knowledge_files>>

(* lines 362-367 and 277-359: one run of inject_knowledge.py on an event *)
KnowledgeEvent(e) ==
    /\ pc = "start"
    /\ event' = e
    /\ LET r == handle(knowledge_files, transcript, e)
       IN /\ stdout_out' = r.out
          /\ stderr_out' = <<NL, "[inject-knowledge]", NL>> \o r.err
          /\ exit_code' = r.code
    /\ pc' = "done"
    /\ UNCHANGED <<session_unchanged, knowledge_files, transcript>>

InitKnowledge ==
    /\ InitWith({<<"inject_knowledge.py">>}, {EmptyStdin}, {<<>>})
    /\ environ_running = None
    /\ stop_config = <<>>
    /\ log_writable = TRUE
    /\ todo_file = NoTodoFile
    /\ knowledge_files \in KnowledgeSets
    /\ transcript = <<>>
    /\ event = NoEvent
    /\ inserted = {}

NextKnowledge ==
    \/ \E entry \in TranscriptEntries : TranscriptAppend(entry)
    \/ \E e \in Events : KnowledgeEvent(e)

SpecKnowledge == InitKnowledge /\ [][NextKnowledge]_vars

(* the transcript holds an assistant tool_use entry named Read whose       *)
(* file_path is the full path of K                                         *)
ReadEntryOf(K) == \E i \in DOMAIN transcript : transcript[i] = ToolUse("Read", K)

(* the script's last run wrote the read-now warning for K *)
WarnsToRead(K) == Occurrences(PathStr(K), stderr_out) > 0

(* the last event is a file event on a file below K's directory other     *)
(* than K, and K lies in the project, not in the project root              *)
EventBelow(K) ==
    /\ Done
    /\ event.kind = "event"
    /\ event.tool \in {"Read", "Write", "Edit", "MultiEdit", "NotebookEdit"}
    /\ event.file # <<>>
    /\ event.file # K
    /\ IsUnder(event.file, Parent(K))
    /\ IsUnder(Parent(K), ProjectRoot(event.file, event.cwd))
    /\ Parent(K) # ProjectRoot(event.file, event.cwd)

(* once K has been read the warning for K is not written again, and an     *)
(* exit 2 is for another applicable knowledge file that is still unread    *)
NoWarningOnceRead ==
    \A K \in knowledge_files :
        (Done /\ ReadEntryOf(K)) =>
            /\ ~WarnsToRead(K)
            /\ exit_code = 2 =>
                 \E other \in knowledge_files \ {K} : EventBelow(other) /\ ~ReadEntryOf(other)

HOME_DIR == <<"home", "u">>

(* line 86, line 456 *)
USER_RULES_DIR == HOME_DIR \o <<".claude", "modular-prompts">>

(* the rule files there are: two of the project, one of which always       *)
(* applies and one with globs "**/*.py", and one of the user that always   *)
(* applies; each has a content of its own that no run changes              *)
P_RULE == ROOT \o <<".cursor", "rules", "style.mdc">>
G_RULE == ROOT \o <<".cursor", "rules", "python.md">>
U_RULE == USER_RULES_DIR \o <<"user.md">>

RuleFiles == <<P_RULE, G_RULE, U_RULE>>

(* the files that exist, other than rule files *)
README == ROOT \o <<"README.md">>
MOD_PY == PKG \o <<"mod.py">>

(* Path(__file__).resolve() *)
RULES_SCRIPT == HOME_DIR \o <<".claude", "hooks", "post-tool-use", "inject_rules.py">>

(* the pieces of a name *)
NameParts(name) ==
    CASE name = ".cursor" -> <<".", "cursor">>
      [] name = ".claude" -> <<".", "claude">>
      [] name = "style.mdc" -> <<"style", ".", "mdc">>
      [] name = "python.md" -> <<"python", ".", "md">>
      [] name = "user.md" -> <<"user", ".", "md">>
      [] name = "README.md" -> <<"README", ".", "md">>
      [] name = "mod.py" -> <<"mod", ".", "py">>
      [] name = "inject_rules.py" -> <<"inject_rules", ".", "py">>
      [] OTHER -> <<name>>

(* Path.suffix *)
Suffix(path) ==
    LET parts == NameParts(path[Len(path)])
    IN IF Len(parts) >= 3 /\ parts[Len(parts) - 1] = "." THEN <<".", parts[Len(parts)]>> ELSE <<>>

(* str(path) of a relative path *)
RECURSIVE RelativeStr(_)

RelativeStr(path) ==
    IF path = <<>> THEN <<>>
    ELSE IF Len(path) = 1 THEN NameParts(path[1])
    ELSE NameParts(path[1]) \o <<"/">> \o RelativeStr(Tail(path))

(* str(path) of an absolute path *)
AbsoluteStr(path) == <<"/">> \o RelativeStr(path)

(* str.replace(old, new) for a one-character old *)
Replace(text, old, new) == [i \in DOMAIN text |-> IF text[i] = old THEN new ELSE text[i]]

(* lines 88-98 *)
RuleFinder_find_project_root(cwd) == MarkedAbove(cwd, cwd)

(* Path.exists() of a rule directory *)
RuleDirExists(rule_dir) == \E i \in DOMAIN RuleFiles : Parent(RuleFiles[i]) = rule_dir

RECURSIVE CommonParts(_, _)

CommonParts(rule_parts, current_parts) ==
    IF rule_parts = <<>> \/ current_parts = <<>> \/ Head(rule_parts) # Head(current_parts) THEN 0
    ELSE 1 + CommonParts(Tail(rule_parts), Tail(current_parts))

(* lines 128-151 *)
calculate_distance(project_root, rule_file, current_file) ==
    IF ~IsUnder(Parent(rule_file), project_root) \/ ~IsUnder(Parent(current_file), project_root)
    THEN 9999
    ELSE LET rule_parts == RelativeTo(Parent(rule_file), project_root)
             current_parts == RelativeTo(Parent(current_file), project_root)
         IN Len(current_parts) - CommonParts(rule_parts, current_parts)

(* line 124: list.sort by the distance, which keeps the order of equals *)
RECURSIVE InsertByDistance(_, _)

InsertByDistance(sorted, candidate) ==
    IF sorted = <<>> THEN <<candidate>>
    ELSE IF candidate.distance < Head(sorted).distance THEN <<candidate>> \o sorted
    ELSE <<Head(sorted)>> \o InsertByDistance(Tail(sorted), candidate)

RECURSIVE SortByDistance(_)

SortByDistance(candidates) ==
    IF candidates = <<>> THEN <<>>
    ELSE InsertByDistance(SortByDistance(SubSeq(candidates, 1, Len(candidates) - 1)),
                          candidates[Len(candidates)])

(* lines 108-116 for one rule directory: "**/*.mdc" first, then "**/*.md" *)
GlobRules(rule_dir, suffix) ==
    SelectSeq(RuleFiles, LAMBDA rule : IsUnder(rule, rule_dir) /\ Suffix(rule) = suffix)

RulesOfDir(rule_dir) ==
    IF ~RuleDirExists(rule_dir) THEN <<>>
    ELSE GlobRules(rule_dir, <<".", "mdc">>) \o GlobRules(rule_dir, <<".", "md">>)

(* lines 100-126 *)
find_rule_files(project_root, current_file_path) ==
    LET project_rules ==
            RulesOfDir(project_root \o <<".cursor", "rules">>)
            \o RulesOfDir(project_root \o <<".claude", "modular-prompts">>)
        user_rules == RulesOfDir(USER_RULES_DIR)
    IN SortByDistance(
         [i \in DOMAIN project_rules |->
            [path |-> project_rules[i],
             distance |-> calculate_distance(project_root, project_rules[i], current_file_path)]]
         \o [i \in DOMAIN user_rules |-> [path |-> user_rules[i], distance |-> 9999]])

(* lines 177-197, on the metadata of the rule files there are; None for    *)
(* no match                                                                *)
should_apply(rule_path, current_file_path, cwd) ==
    IF rule_path \in {P_RULE, U_RULE} THEN <<"alwaysApply">>
    ELSE IF ~IsUnder(current_file_path, cwd) THEN <<>>
    ELSE IF Suffix(current_file_path) = <<".", "py">> THEN <<"glob: **/*.py">>
    ELSE <<>>

(* lines 205-271: the paths of the existing .md and .mdc files that an     *)
(* assistant Read entry of the transcript names                            *)
get_already_read_rule_contents(lines) ==
    {lines[i].file_path : i \in
        {j \in DOMAIN lines :
            /\ lines[j].type = "assistant"
            /\ lines[j].role = "assistant"
            /\ lines[j].block = "tool_use"
            /\ lines[j].name = "Read"
            /\ lines[j].file_path # <<>>
            /\ Suffix(lines[j].file_path) \in {<<".", "md">>, <<".", "mdc">>}
            /\ \/ lines[j].file_path = README
               \/ \E k \in DOMAIN RuleFiles : RuleFiles[k] = lines[j].file_path}}

NoRuleInfo == [path |-> <<>>, relative_path |-> <<>>, distance |-> 0, match_reason |-> <<>>]

(* lines 286-335 *)
process_single_rule_file(rule_path, distance, current_file_path, cwd, already_read) ==
    LET match_reason == should_apply(rule_path, current_file_path, cwd)
    IN IF match_reason = <<>> THEN NoRuleInfo
       ELSE IF rule_path \in already_read THEN NoRuleInfo
       ELSE [path |-> rule_path,
             relative_path |-> IF IsUnder(rule_path, cwd)
                               THEN RelativeStr(RelativeTo(rule_path, cwd))
                               ELSE AbsoluteStr(rule_path),
             distance |-> distance,
             match_reason |-> match_reason]

(* lines 344-346 *)
generate_todo_id(rule_info) ==
    <<"read-rule-">> \o Replace(Replace(rule_info.relative_path, "/", "-"), ".", "-")

(* lines 348-354 *)
generate_todo_id_from_path(rule_path, project_root) ==
    LET relative_path == IF IsUnder(rule_path, project_root)
                         THEN RelativeStr(RelativeTo(rule_path, project_root))
                         ELSE AbsoluteStr(rule_path)
    IN <<"read-rule-">> \o Replace(Replace(relative_path, "/", "-"), ".", "-")

HasId(todo, todo_id) == todo.t = "object" /\ todo.id = Str(todo_id)

(* lines 368-372 *)
RECURSIVE CompleteFirst(_, _)

CompleteFirst(todos, todo_id) ==
    IF todos = <<>> THEN <<>>
    ELSE IF HasId(Head(todos), todo_id)
         THEN <<TodoItem(Head(todos).id, Str(<<"completed">>))>> \o Tail(todos)
    ELSE <<Head(todos)>> \o CompleteFirst(Tail(todos), todo_id)

(* lines 356-377; a todo file that holds a JSON object has a member, and   *)
(* the loop over it raises AttributeError                                  *)
mark_todo_completed(file, todo_id) ==
    IF ~file.exists \/ file.kind = "garbage" THEN [raises |-> "", file |-> file]
    ELSE IF file.kind = "object" THEN [raises |-> "AttributeError", file |-> file]
    ELSE [raises |-> "", file |-> TodoList(CompleteFirst(file.todos, todo_id))]

(* lines 379-409; the todo inserted is reported for the history *)
add_todo_item(file, rule_info) ==
    LET todos == IF file.exists /\ file.kind = "list" THEN file.todos ELSE <<>>
        todo_id == generate_todo_id(rule_info)
    IN IF file.exists /\ file.kind = "object"
       THEN [raises |-> "AttributeError", file |-> file, added |-> {}]
       ELSE IF \E i \in DOMAIN todos : HasId(todos[i], todo_id)
       THEN [raises |-> "", file |-> file, added |-> {}]
       ELSE [raises |-> "",
             file |-> TodoList(<<TodoItem(Str(todo_id), Str(<<"pending">>))>> \o todos),
             added |-> {[rule |-> rule_info.path, id |-> todo_id]}]

(* lines 508-520: the todos of the rules to inject, one after the other *)
RECURSIVE AddTodoItems(_, _)

AddTodoItems(file, rules_to_inject) ==
    IF rules_to_inject = <<>> THEN [raises |-> "", file |-> file, added |-> {}]
    ELSE LET first == add_todo_item(file, Head(rules_to_inject))
             rest == AddTodoItems(first.file, Tail(rules_to_inject))
         IN IF first.raises # "" THEN first
            ELSE [raises |-> rest.raises, file |-> rest.file,
                  added |-> first.added \cup rest.added]

(* lines 511-519 *)
RuleMessage(rule_info) ==
    <<"FUCKING READ THIS RIGHT NOW! ACTION REQUIRED IMMEDIATELY!", NL,
      "DO NOT assume it's irrelevant. READ IT NOW WITH Read TOOL:", NL>>
    \o AbsoluteStr(rule_info.path) \o <<NL, "Reason: ">> \o rule_info.match_reason
    \o <<NL, NL, "[Todo added to ~/.claude/todos/">> \o SESSION \o <<"-agent-">> \o SESSION
    \o <<".json]">>

RuleExit(code, what, file) ==
    [code |-> code, out |-> <<"[inject-rules] ">> \o what \o <<NL>>, err |-> <<>>,
     file |-> file, added |-> {}]

(* an exception leaves handle and asyncio.run: traceback, exit status 1 *)
RuleRaises(exception, file) ==
    [code |-> 1, out |-> <<>>, err |-> <<"Traceback (most recent call last):", exception, NL>>,
     file |-> file, added |-> {}]

(* lines 452-473: the rule directory of the event's cwd or of the user     *)
(* that holds the file read; <<>> if none does                             *)
RuleDirOf(current_file_path, cwd) ==
    LET rule_dirs == <<cwd \o <<".cursor", "rules">>, cwd \o <<".claude", "modular-prompts">>,
                       USER_RULES_DIR>>
        holding == SelectSeq(rule_dirs,
                             LAMBDA d : RuleDirExists(d) /\ IsUnder(current_file_path, d))
    IN IF holding = <<>> THEN <<>> ELSE Head(holding)

(* lines 413-524 *)
handle_rules(file, lines, e) ==
    IF e.kind = "empty" THEN RuleExit(0, <<"Skipping: No input provided">>, file)
    ELSE IF e.kind = "notjson" THEN RuleExit(0, <<"Skipping: Invalid input format">>, file)
    ELSE IF e.tool \notin {"Read", "Write", "Edit", "MultiEdit", "NotebookEdit"}
         THEN RuleExit(0, <<"Skipping: Tool ", e.tool, " not relevant">>, file)
    ELSE IF e.file = <<>> THEN RuleExit(0, <<"Skipping: No file path provided">>, file)
    ELSE IF e.file = RULES_SCRIPT THEN RuleExit(0, <<"Skipping: Self-reference detected">>, file)
    ELSE IF /\ e.tool = "Read"
            /\ Suffix(e.file) \in {<<".", "md">>, <<".", "mdc">>}
            /\ RuleDirOf(e.file, e.cwd) # <<>>
         THEN LET todo_id == generate_todo_id_from_path(e.file,
                                                        RuleFinder_find_project_root(e.cwd))
                  marked == mark_todo_completed(file, todo_id)
              IN IF marked.raises # "" THEN RuleRaises(marked.raises, file)
                 ELSE RuleExit(0, <<"Success: Rule todo completed">>, marked.file)
    ELSE
    LET project_root == RuleFinder_find_project_root(e.cwd)
        rule_candidates == find_rule_files(project_root, e.file)
        already_read == get_already_read_rule_contents(lines)
        rule_results == [i \in DOMAIN rule_candidates |->
                      process_single_rule_file(rule_candidates[i].path,
                                                    rule_candidates[i].distance,
                                                    e.file, e.cwd, already_read)]
        rules_to_inject == SelectSeq(rule_results, LAMBDA r : r # NoRuleInfo)
        added == AddTodoItems(file, rules_to_inject)
        messages == [i \in DOMAIN rules_to_inject |-> RuleMessage(rules_to_inject[i])]
    IN IF rule_candidates = <<>> THEN RuleExit(0, <<"Success: No rule files found">>, file)
       ELSE IF rules_to_inject = <<>>
            THEN RuleExit(0, <<"Success: All rules already in context">>, file)
       ELSE IF added.raises # "" THEN RuleRaises(added.raises, file)
       ELSE [code |-> 2, out |-> <<>>, err |-> JoinMessages(messages) \o <<NL>>,
             file |-> added.file, added |-> added.added]

RuleEventFiles == {MOD_PY, README, P_RULE, G_RULE, U_RULE, RULES_SCRIPT, <<>>}

RuleEvents ==
    {EmptyEvent, NotJsonEvent}
    \cup {ToolEvent(tool, file, cwd) :
            tool \in {"Read", "Edit", "Bash"}, file \in RuleEventFiles, cwd \in {ROOT, PKG}}

RuleTranscriptEntries == {ToolUse("Read", P_RULE), ToolUse("Read", U_RULE), ToolUse("Edit", MOD_PY)}

RuleTodoFiles == {NoTodoFile, GarbageTodoFile, ObjectTodoFile, TodoList(<<>>), TodoList(<<Pending>>)}

rules_unchanged ==
    <<inputs, log_writable, knowledge_files, stop_vars, locals, claude_needs_to_know, results,
      hook_idx, result, async_life, sync_life, faulty, launch_log, history>>

(* the host writes the next line of the session's transcript *)
RuleTranscriptAppend(entry) ==
    /\ Len(transcript) < MaxTranscript
    /\ transcript' = Append(transcript, entry)
    /\ pc' = "start"
    /\ event' = NoEvent
    /\ stdout_out' = <<>>
    /\ stderr_out' = <<>>
    /\ exit_code' = -1
    /\ raised' = ""
    /\ UNCHANGED <<rules_unchanged, todo_file, inserted>>

(* lines 527-532 and 413-524: one run of inject_rules.py on an event *)
RuleEvent(e) ==
    /\ pc = "start"
    /\ event' = e
    /\ LET r == handle_rules(todo_file, transcript, e)
       IN /\ stdout_out' = r.out
          /\ stderr_out' = <<NL, "[inject-rules]", NL>> \o r.err
          /\ exit_code' = r.code
          /\ todo_file' = r.file
          /\ inserted' = inserted \cup r.added
          /\ raised' = IF r.code = 1 THEN "AttributeError" ELSE ""
    /\ pc' = "done"
    /\ UNCHANGED <<rules_unchanged, transcript>>

InitRules ==
    /\ InitWith({<<"inject_rules.py">>}, {EmptyStdin}, {<<>>})
    /\ environ_running = None
    /\ stop_config = <<>>
    /\ log_writable = TRUE
    /\ todo_file \in RuleTodoFiles
    /\ knowledge_files = {}
    /\ transcript = <<>>
    /\ event = NoEvent
    /\ inserted = {}

NextRules ==
    \/ \E entry \in RuleTranscriptEntries : RuleTranscriptAppend(entry)
    \/ \E e \in RuleEvents : RuleEvent(e)

SpecRules == InitRules /\ [][NextRules]_vars

(* the todo of this id is in the session's todo file, completed *)
TodoCompleted(file, todo_id) ==
    /\ file.exists
    /\ file.kind = "list"
    /\ \E i \in DOMAIN file.todos : HasId(file.todos[i], todo_id)
    /\ \A i \in DOMAIN file.todos :
          HasId(file.todos[i], todo_id) => file.todos[i].status = Str(<<"completed">>)

(* a run of the script on a Read event on this rule file *)
ReadEventOn(rule) ==
    /\ pc = "start"
    /\ pc' = "done"
    /\ event'.kind = "event"
    /\ event'.tool = "Read"
    /\ event'.file = rule

(* C30: for every rule file R for which add_todo_item inserted a pending   *)
(* todo into the session's todo file, a later Read event on R leaves that  *)
(* todo (the same id) completed, for a project rule as for a user rule,    *)
(* and whether or not the event's cwd is the detected project root.        *)
C30_ReadCompletesRuleTodo ==
    [][\A todo \in inserted : ReadEventOn(todo.rule) => TodoCompleted(todo_file', todo.id)]_vars
====
